---- MODULE Spec2Model ----
(***************************************************************************)
(* A/B-slot OTA client: the boot controller's slot lifecycle (grub.py),    *)
(* the update orchestrator FSM (OtaStateSync) and the client facade        *)
(* (_BaseOtaClient) of ota_client.py.                                      *)
(***************************************************************************)
EXTENDS Integers, Sequences, FiniteSets, TLC

(***************************************************************************)
(* Bounds of the model.                                                    *)
(***************************************************************************)
\* number of distinct image versions a caller may request
MaxVersion == 2

Slots == {"A", "B"}
Versions == 1..MaxVersion
NONE == "NONE"

\* number of threads calling into one FSM, and calls each of them makes
MaxCalls == 2

\* number of calls one client thread makes, and regular files of an image
MaxClientCalls == 2
MaxFiles == 1

\* OTAStatusEnum
StatusSet ==
  {"INITIALIZED", "UPDATING", "SUCCESS", "FAILURE", "ROLLBACKING", "ROLLBACK_FAILURE"}

VARIABLES
  \* ---- persisted slot state and the boot loader (boot_control/grub.py) ----
  active,          \* ABPartitionDetecter.active_slot: the slot booted now
  statusFile,      \* per slot: the `status` file
  versionFile,     \* per slot: the `version` file (0: never written)
  slotInUseFile,   \* per slot: the `slot_in_use` file (NONE: file missing)
  bootLink,        \* slot the boot loader's committed configuration points at
  bootEntry,       \* slot of the one-shot boot entry (custom.cfg), or NONE
  standbyMounted,  \* standby slot mounted at the mount point
  ctrl,            \* "off": booted, controller not constructed; "up"; "down": reboot invoked
  bootedStatus,    \* GrubController.ota_status, the result of _init_boot_control
  otaStatus,       \* live OTA status of the client (OtaStatusControlMixin._ota_status)
  op,              \* SpecBoot: the operation the client drives on the controller
  loaded,          \* status _init_boot_control loaded from the active slot at start
  sawSwitch,       \* what the is-switching check reported at that start
  hadSlotInUse,    \* slot_in_use the active slot held at that start
  updateFrom,      \* slot that was active when pre_update last succeeded (NONE: none)
  fellBack,        \* this boot is on the slot an update was started from
  raised,          \* what the last controller operation raised to its caller, and how the unmount attempt of the failure handler went
  \* ---- the orchestrator FSM (OtaStateSync) ----
  latch,           \* per FSM object and state: the state's Event is set
  \* ---- SpecFsm: participants calling start and proceed on one FSM ----
  fpc,             \* per caller thread: position inside start / proceed
  fcall,           \* per caller thread: the call it makes
  fres,            \* per caller thread: how its last call ended
  fdidSet,         \* per caller thread: its current call executed Event.set
  fcalls,          \* per caller thread: number of calls begun
  okExits,         \* per state: proceed calls targeting it that left their scope normally
  setter,          \* per state: the participants that set its latch
  \* ---- SpecClient: the client facade (_BaseOtaClient) and its callers ----
  pc,              \* per calling thread: position inside update / rollback
  call,            \* per calling thread: the call it makes
  ret,             \* per calling thread: what its last call returned
  ncalls,          \* per calling thread: number of calls begun
  err,             \* per calling thread: the exception in flight
  failureType,     \* _BaseOtaClient._failure_type
  failureReason,   \* _BaseOtaClient._failure_reason
  updatePhase,     \* _BaseOtaClient._update_phase
  stats,           \* _BaseOtaClient._statistics (the storage slot)
  svc,             \* per FSM object: position of the service (P1) driving it
  preDone,         \* per calling thread: enter_update returned in this call
  postInvoked,     \* per calling thread: boot_ctrl_post_update entered in this call
  reboots,         \* per calling thread: reboots this call invoked
  switched,        \* per calling thread: this call switched the boot entry
  \* ---- SpecHardlink: HardlinkRegister and the tasks of one hardlink group ----
  hn,              \* nlink of the group: the number of its entries
  hreg,            \* HardlinkRegister: tracker registered for the group (0: none)
  htr,             \* the _HardlinkTracker objects created, in order of creation
  hpc,             \* per entry: position of the task that handles it
  hgot,            \* per entry: what get_tracker returned to it
  hres,            \* per entry: what subscribe returned or raised
  \* ---- SpecDelta: DeltaGenerator._calculate_delta_offline ----
  dold,            \* the old manifest: the hashes of its regular entries, in order
  dnew,            \* the new manifest, likewise
  dpc,             \* position: "old", "new", "opt", "done", "AttributeError"; "off"
  di,              \* index of the next manifest line to read
  rmSet,           \* _rm: RegularDelta of the old entries not matched
  newSet,          \* _new
  holdSet,         \* _hold
  \* ---- downloading the files of a build (_rebuild_mode.py, downloading.py)
  bmode,           \* "rebuild": RebuildMode._process_regulars;
                   \* "download": OTAFilesDownloader.download_ota_files; "off"
  files_list,      \* the regular entries to fetch, each by its sha256hash
  tpc,             \* per entry, the position of its _download_file task
  download_dir,    \* the hashes that have a file in the download folder
  invoked,         \* per hash, how often Downloader.download was called
  idx,             \* RetryTaskMap.map: the pass being run
  mapState,        \* "running", "returned"; "off"
  apc,             \* per hash, the position of its _apply_delta task
  \* ---- the regulars phase and its stats collector (_rebuild_mode.py,
  \* ---- create_bank/_common.py: CreateRegularStatsCollector)
  rpc,             \* the calling thread: "bank_meta" in create_standby_bank;
                   \* "start", "dispatch", "wait", "exiting" in
                   \* _process_regulars; "returned", "raised"; "off"
  rerr,            \* the exception the calling thread raises, or NONE
  phasesDone,      \* create_standby_bank: the phases that have returned
  hasRm,           \* _rm holds a bucket
  rnb,             \* the number of buckets of _hold and _new
  rk,              \* the bucket the dispatch loop is at
  rse,             \* CreateRegularStatsCollector.se: the permits left
  rtask,           \* per bucket, its task: "none", "running", "returned",
                   \* "raised"
  rque,            \* CreateRegularStatsCollector._que
  rstaging,        \* collector(): _staging
  cpc,             \* collector(): "top", "flush", "exited", "finished",
                   \* "crashed"; "none"
  abort_event,     \* CreateRegularStatsCollector.abort_event
  finished_event,  \* CreateRegularStatsCollector.finished_event
  last_error,      \* CreateRegularStatsCollector.last_error
  rslot,           \* OtaClientStatistics._slot as the collector updates it
  \* ---- rewriting one slot state file (_common.py: write_to_file) ----
  fdisk,           \* the characters of the file as they are on the disk
  fold,            \* the value the file held before the write
  fnew,            \* the value being written
  wfn,             \* "write_to_file" or "write_str_to_file_sync"
  wpc,             \* "call", "open", "written", "done"; "off"
  crashed,         \* the process died during or after the write
  fread,           \* what read_from_file returned after the crash
  \* ---- the statistics store (update_stats.py: OtaClientStatistics) ----
  sop,             \* per thread, the calls it makes on the store, in order
  si,              \* per thread, the number of its calls that have ended
  spc,             \* per thread: "ready"; "locked" in set(); "staged",
                   \* "partial", "body_done", "body_raised" in a staging
                   \* block; "off"
  slock,           \* OtaClientStatistics._lock: its holder, or NONE
  sslot,           \* OtaClientStatistics._slot
  sstaging,        \* per thread, staging_slot of its staging block
  snap,            \* what get_snapshot() returned last
  \* ---- one bucket of a delta (create_bank/_common.py: RegularInfSet) ----
  kdelta,          \* the RegularDelta the bucket belongs to: "_rm", "_new",
                   \* "_hold", or "caller" for one made by another caller
  kskip,           \* RegularInfSet._no_first_copy (skip_verify)
  kn,              \* the number of entries handed to add()
  kgood,           \* per entry: verify_file of its file on the active slot
  kadded,          \* the number of add() calls made
  kdata,           \* RegularInfSet.data (None before the first add)
  kfirst,          \* RegularInfSet._first_copy, 0 for None
  kconsumer,       \* who consumes the bucket: "_apply_delta" or "for"
  kpc,             \* "build", "ready", "iter", "stopped", "AttributeError";
                   \* "off"
  kyield,          \* the (is_last, entry) pairs the iterator has returned
  \* ---- SimpleTasksTracker (otaclient/app/common.py) and its user ----
  tk_n,            \* number of tasks the user has to register
  tk_next,         \* the task the user registers next; tk_n + 1: all handed in
  tk_task,         \* per task: "new", "running", "skipped", "assigning", "done", "failed"
  tk_se,           \* SimpleTasksTracker._se: permits left
  tk_in_counter,   \* value the next next(self._in_counter) gives
  tk_done_counter, \* value the next next(self._done_counter) gives
  tk_in_num,       \* SimpleTasksTracker._in_num
  tk_done_num,     \* SimpleTasksTracker._done_num
  tk_val,          \* per task: the value its done_callback drew and has not stored yet
  tk_register_finished, \* SimpleTasksTracker._register_finished
  tk_interrupted,  \* SimpleTasksTracker._interrupted
  tk_last_error,   \* SimpleTasksTracker.last_error: the task whose error it is, 0 for None
  tk_wait,         \* wait(): "idle", "loop", "after", "returned", "raised"; "off"
  \* ---- the OTA cache database (ota_proxy/db.py: OTACacheDB) ----
  dbstate,         \* "closed", "open", "AttributeError"; "off"
  dbtable,         \* the table exists in the database file
  dbrows,          \* the rows of the table
  dbnow,           \* int(datetime.now().timestamp())
  dblast,          \* the last call on the database and what it returned
  dbflip           \* flips at every call

bootVars ==
  <<active, statusFile, versionFile, slotInUseFile, bootLink, bootEntry,
    standbyMounted, ctrl, bootedStatus, otaStatus, op, loaded, sawSwitch,
    hadSlotInUse, updateFrom, fellBack, raised>>

fsmVars == <<fpc, fcall, fres, fdidSet, fcalls, okExits, setter>>

clientVars ==
  <<pc, call, ret, ncalls, err, failureType, failureReason, updatePhase, stats,
    svc, preDone, postInvoked, reboots, switched>>

hlVars == <<hn, hreg, htr, hpc, hgot, hres>>

deltaVars == <<dold, dnew, dpc, di, rmSet, newSet, holdSet>>

buildVars ==
  <<bmode, files_list, tpc, download_dir, invoked, idx, mapState, apc>>

regVars ==
  <<rpc, rerr, phasesDone, hasRm, rnb, rk, rse, rtask, rque, rstaging, cpc,
    abort_event, finished_event, last_error, rslot>>

fileVars == <<fdisk, fold, fnew, wfn, wpc, crashed, fread>>

storeVars == <<sop, si, spc, slock, sslot, sstaging, snap>>

bucketVars ==
  <<kdelta, kskip, kn, kgood, kadded, kdata, kfirst, kconsumer, kpc, kyield>>

trackerVars ==
  <<tk_n, tk_next, tk_task, tk_se, tk_in_counter, tk_done_counter, tk_in_num,
    tk_done_num, tk_val, tk_register_finished, tk_interrupted, tk_last_error,
    tk_wait>>

dbVars == <<dbstate, dbtable, dbrows, dbnow, dblast, dbflip>>

\* the variables of the standby-bank builder (create_bank) and of the helpers
bankVars ==
  <<hlVars, deltaVars, buildVars, regVars, fileVars, storeVars, bucketVars,
    trackerVars, dbVars>>

vars == <<bootVars, latch, fsmVars, clientVars, bankVars>>

\* what the actions of one specification leave alone
outsideBoot == <<latch, fsmVars, clientVars, bankVars>>
outsideFsm == <<bootVars, clientVars, bankVars>>
outsideClient ==
  <<active, bootLink, bootedStatus, op, loaded, sawSwitch, hadSlotInUse,
    updateFrom, fellBack, fsmVars, bankVars>>
outsideHl ==
  <<bootVars, latch, fsmVars, clientVars, deltaVars, buildVars, regVars,
    fileVars, storeVars, bucketVars,
    trackerVars, dbVars>>
outsideDelta ==
  <<bootVars, latch, fsmVars, clientVars, hlVars, buildVars, regVars,
    fileVars, storeVars, bucketVars,
    trackerVars, dbVars>>
outsideBuild ==
  <<bootVars, latch, fsmVars, clientVars, hlVars, deltaVars, regVars,
    fileVars, storeVars, bucketVars,
    trackerVars, dbVars>>
outsideReg ==
  <<bootVars, latch, fsmVars, clientVars, hlVars, deltaVars, buildVars,
    fileVars, storeVars, bucketVars,
    trackerVars, dbVars>>
outsideFile ==
  <<bootVars, latch, fsmVars, clientVars, hlVars, deltaVars, buildVars,
    regVars, storeVars, bucketVars,
    trackerVars, dbVars>>
outsideStore ==
  <<bootVars, latch, fsmVars, clientVars, hlVars, deltaVars, buildVars,
    regVars, fileVars, bucketVars,
    trackerVars, dbVars>>
outsideTracker ==
  <<bootVars, latch, fsmVars, clientVars, hlVars, deltaVars, buildVars,
    regVars, fileVars, storeVars, bucketVars, dbVars>>
outsideDb ==
  <<bootVars, latch, fsmVars, clientVars, hlVars, deltaVars, buildVars,
    regVars, fileVars, storeVars, bucketVars, trackerVars>>
outsideBucket ==
  <<bootVars, latch, fsmVars, clientVars, hlVars, deltaVars, buildVars,
    regVars, fileVars, storeVars,
    trackerVars, dbVars>>

(***************************************************************************)
(* OtaStateSync: the definition of the state machine                       *)
(***************************************************************************)
\* OtaStateSync._STATE_LIST
STATE_LIST == <<"_START", "_S0", "_S1", "_S2", "_END">>
States == {STATE_LIST[i] : i \in 1..Len(STATE_LIST)}

P1_ota_service == "ota_service"
P2_ota_client == "ota_client"
Participants == {P1_ota_service, P2_ota_client}

\* OtaStateSync._STARTER
STARTER == P1_ota_service

FsmIds == {"f1", "f2"}
FThreads == {"c1", "c2"}

STATE_SWITCH_AnyCaller(state, caller) ==
  CASE state = "_START" -> "_S0"
    [] state = "_S0" -> "_S1"
    [] state = "_S1" -> "_S2"
    [] state = "_S2" -> "_END"
    [] OTHER -> NONE

\* OtaStateSync._STATE_SWITCH: next state of (expected state, caller), NONE
\* when the pair is not a key
STATE_SWITCH(state, caller) ==
  CASE state = "_START" /\ caller = P1_ota_service -> "_S0"
    [] state = "_S0" /\ caller = P2_ota_client -> "_S1"
    [] state = "_S1" /\ caller = P2_ota_client -> "_S2"
    [] state = "_S2" /\ caller = P1_ota_service -> "_END"
    [] OTHER -> NONE

\* OtaStateSync.__init__: every state's Event is created unset
FsmInit == [s \in States |-> FALSE]

NoCall == [kind |-> NONE, caller |-> NONE, expect |-> NONE, timeout |-> FALSE]

\* the variables of the other specifications, at rest
LatchIdle == latch = [f \in FsmIds |-> FsmInit]
FsmIdle ==
  /\ fpc = [t \in FThreads |-> "idle"]
  /\ fcall = [t \in FThreads |-> NoCall]
  /\ fres = [t \in FThreads |-> "none"]
  /\ fdidSet = [t \in FThreads |-> FALSE]
  /\ fcalls = [t \in FThreads |-> 0]
  /\ okExits = [s \in States |-> 0]
  /\ setter = [s \in States |-> {}]

\* the threads calling into the client; each passes its own FSM object
CThreads == {"t1", "t2"}
FsmOf(t) == IF t = "t1" THEN "f1" ELSE "f2"
\* the image version each thread asks for
VersionOf(t) == IF t = "t1" THEN 1 ELSE MaxVersion

NoErr == [kind |-> NONE, msg |-> ""]

\* _OtaClientStatisticsStorage()
EmptyStats ==
  [total_regular_files |-> 0, regular_files_processed |-> 0,
   total_elapsed_time |-> 0]

\* _status: int(time.time() * 1000) - self._update_start_time, the time since
\* the update started as a status() call reads it; the model keeps one
\* reading, which differs from the 0 of a cleared store
ElapsedTime == 1

\* _BaseOtaClient.__init__
ClientIdle ==
  /\ pc = [t \in CThreads |-> "idle"]
  /\ call = [t \in CThreads |-> [kind |-> NONE, version |-> 0, cookiesOk |-> TRUE]]
  /\ ret = [t \in CThreads |-> "none"]
  /\ ncalls = [t \in CThreads |-> 0]
  /\ err = [t \in CThreads |-> NoErr]
  /\ failureType = "NO_FAILURE"
  /\ failureReason = ""
  /\ updatePhase = "INITIAL"
  /\ stats = EmptyStats
  /\ svc = [f \in FsmIds |-> "new"]
  /\ preDone = [t \in CThreads |-> FALSE]
  /\ postInvoked = [t \in CThreads |-> FALSE]
  /\ reboots = [t \in CThreads |-> 0]
  /\ switched = [t \in CThreads |-> FALSE]

\* number of entries of the largest hardlink group
MaxNlink == 3

\* the entries of a hardlink group, each handled by one task
Entries == 1..MaxNlink

\* get_tracker has not returned to the entry yet
NoGot == [tracker |-> 0, writer |-> FALSE]

\* subscribe has not ended for the entry; it raised ValueError; it returned
\* the path p
NoRes == [raised |-> FALSE, path |-> 0]
ValueError == [raised |-> TRUE, path |-> 0]
Returned(p) == [raised |-> FALSE, path |-> p]

\* HardlinkRegister.__init__: empty maps, and no task started
HlIdle ==
  /\ hn = 0
  /\ hreg = 0
  /\ htr = <<>>
  /\ hpc = [e \in Entries |-> "off"]
  /\ hgot = [e \in Entries |-> NoGot]
  /\ hres = [e \in Entries |-> NoRes]

\* number of distinct content hashes, and of lines of a manifest
MaxHash == 2
MaxManifest == 2

Hashes == 1..MaxHash

\* the manifests: sequences of at most MaxManifest hashes
Manifests == UNION {[1..n -> Hashes] : n \in 0..MaxManifest}

\* RegularInf(l): the entry read from line i of manifest m ("old" or "new")
RegularInf(m, i, h) == [m |-> m, i |-> i, sha256hash |-> h]

\* no RegularInfSet under a hash; RegularInfSet.__init__ (data is None)
NoBucket == [present |-> FALSE, alloc |-> FALSE, data |-> {}]
NewBucket == [present |-> TRUE, alloc |-> FALSE, data |-> {}]

\* RegularDelta.__init__
EmptyDelta == [h \in Hashes |-> NoBucket]

\* no delta is being calculated
DeltaIdle ==
  /\ dold = <<>>
  /\ dnew = <<>>
  /\ dpc = "off"
  /\ di = 0
  /\ rmSet = EmptyDelta
  /\ newSet = EmptyDelta
  /\ holdSet = EmptyDelta

\* RetryTaskMap.__init__(max_retry): the passes that map() runs at most
MaxRetry == 2

\* nothing is being downloaded
BuildIdle ==
  /\ bmode = "off"
  /\ files_list = <<>>
  /\ tpc = <<>>
  /\ download_dir = {}
  /\ invoked = [h \in Hashes |-> 0]
  /\ idx = 0
  /\ mapState = "off"
  /\ apc = [h \in Hashes |-> "none"]

\* the buckets of a delta that _process_regulars dispatches at most
MaxBuckets == 2
\* cfg.MAX_CONCURRENT_TASKS: the permits of the collector's semaphore
MaxConcurrentTasks == 1

\* _OtaClientStatisticsStorage(): the counters the collector writes
EmptySlot ==
  [regular_files_processed |-> 0, files_processed_copy |-> 0,
   files_processed_link |-> 0, files_processed_download |-> 0]

\* no regulars phase is running
RegIdle ==
  /\ rpc = "off"
  /\ rerr = NONE
  /\ phasesDone = <<>>
  /\ hasRm = FALSE
  /\ rnb = 0
  /\ rk = 0
  /\ rse = 0
  /\ rtask = <<>>
  /\ rque = <<>>
  /\ rstaging = <<>>
  /\ cpc = "none"
  /\ abort_event = FALSE
  /\ finished_event = FALSE
  /\ last_error = NONE
  /\ rslot = EmptySlot

\* the characters a slot state file is made of at most
MaxStrLen == 2
Chars == {"a", "b"}
Strings == UNION {[1..n -> Chars] : n \in 1..MaxStrLen}

\* read_from_file has not been called
NotRead == [done |-> FALSE, text |-> <<>>]

\* no file is being written
FileIdle ==
  /\ fdisk = <<>>
  /\ fold = <<>>
  /\ fnew = <<>>
  /\ wfn = "none"
  /\ wpc = "off"
  /\ crashed = FALSE
  /\ fread = NotRead

\* the variables of the builder and of the helpers at rest
\* the largest value a set() call stores
MaxStat == 1

\* the threads that use one statistics store: the update thread and the stats
\* collector
StoreThreads == {"updater", "collector"}

\* _OtaClientStatisticsStorage(): every field is 0
EmptyStorage ==
  [total_regular_file_size |-> 0, regular_files_processed |-> 0,
   files_processed_copy |-> 0]

\* the calls a thread can make: set(attr, value), clear(), and a staging block
\* whose body adds one processed file to two counters, or raises between the
\* two additions
StoreOps ==
  [kind : {"set"}, attr : {"total_regular_file_size", "regular_files_processed"},
   value : 1..MaxStat, raises : {FALSE}]
  \cup {[kind |-> "clear", attr |-> "none", value |-> 0, raises |-> FALSE]}
  \cup [kind : {"staging"}, attr : {"none"}, value : {0}, raises : BOOLEAN]

\* what one thread does with the store: one call, or two calls in a row
StorePrograms ==
  {<<o>> : o \in StoreOps} \cup {<<o, p>> : o \in StoreOps, p \in StoreOps}

\* the call a thread is at
CurOp(t) == sop[t][si[t] + 1]

\* the statistics store: no thread is using it
StoreIdle ==
  /\ sop = [t \in StoreThreads |-> <<>>]
  /\ si = [t \in StoreThreads |-> 0]
  /\ spc = [t \in StoreThreads |-> "off"]
  /\ slock = NONE
  /\ sslot = EmptyStorage
  /\ sstaging = [t \in StoreThreads |-> EmptyStorage]
  /\ snap = EmptyStorage

\* the largest number of entries of one bucket
MaxBucketEntries == 2

\* the RegularInfSet of a hash: no bucket is being built or consumed
BucketIdle ==
  /\ kdelta = "caller"
  /\ kskip = TRUE
  /\ kn = 0
  /\ kgood = <<>>
  /\ kadded = 0
  /\ kdata = [none |-> TRUE, set |-> {}]
  /\ kfirst = 0
  /\ kconsumer = "for"
  /\ kpc = "off"
  /\ kyield = <<>>

\* largest number of tasks handed to one SimpleTasksTracker
MaxTasks == 2

TkTasks == 1..MaxTasks

\* no tracker is in use
TrackerIdle ==
  /\ tk_n = 0
  /\ tk_next = 1
  /\ tk_task = [i \in TkTasks |-> "new"]
  /\ tk_se = 0
  /\ tk_in_counter = 0
  /\ tk_done_counter = 0
  /\ tk_in_num = 0
  /\ tk_done_num = 0
  /\ tk_val = [i \in TkTasks |-> 0]
  /\ tk_register_finished = FALSE
  /\ tk_interrupted = FALSE
  /\ tk_last_error = 0
  /\ tk_wait = "off"

\* lookup_entry_by_field returned None; no call has been made
None == [none |-> TRUE]
NoDbCall == [op |-> "none", url |-> 0, arg |-> None, ret |-> None]

\* no database is in use
DbIdle ==
  /\ dbstate = "off"
  /\ dbtable = FALSE
  /\ dbrows = {}
  /\ dbnow = 0
  /\ dblast = NoDbCall
  /\ dbflip = FALSE

BankIdle ==
  /\ HlIdle /\ DeltaIdle /\ BuildIdle /\ RegIdle /\ FileIdle /\ StoreIdle
  /\ BucketIdle /\ TrackerIdle /\ DbIdle

Other(s) == IF s = "A" THEN "B" ELSE "A"
standby == Other(active)

(***************************************************************************)
(* Startup finalization                                                    *)
(***************************************************************************)
\* whether the running slot differs from the slot the committed boot
\* configuration points at, i.e. the requested switch took place
IsSwitching == bootLink # active

FinalizeUpdate_AlwaysSuccess == "SUCCESS"

\* GrubController._finalize_update
FinalizeUpdate == IF IsSwitching THEN "SUCCESS" ELSE "FAILURE"

\* GrubController._finalize_rollback (the class binds it to _finalize_update)
FinalizeRollback == FinalizeUpdate

InitBootControlStatus_NoSlotCheck ==
  LET cur == statusFile[active] IN
  CASE cur = "UPDATING" -> FinalizeUpdate
    [] cur = "ROLLBACKING" -> FinalizeRollback
    [] cur = "SUCCESS" ->
         IF slotInUseFile[active] = NONE THEN "INITIALIZED" ELSE "SUCCESS"
    [] OTHER -> cur

\* GrubController._init_boot_control: the value of _ota_status at its end
InitBootControlStatus ==
  LET cur == statusFile[active] IN
  CASE cur = "UPDATING" -> FinalizeUpdate
    [] cur = "ROLLBACKING" -> FinalizeRollback
    [] cur = "SUCCESS" ->
         IF slotInUseFile[active] = NONE THEN "INITIALIZED"
         ELSE IF active # slotInUseFile[active] THEN "FAILURE"
         ELSE "SUCCESS"
    [] OTHER -> cur

StoreCurrentOtaStatus_ResetFailures(st) ==
  [statusFile EXCEPT ![active] =
     IF st \in {"FAILURE", "ROLLBACK_FAILURE"} THEN "INITIALIZED" ELSE st]

\* GrubController._init_boot_control, last step: the status it ends with is
\* written back to the status file of the booted slot
StoreCurrentOtaStatus(st) ==
  [statusFile EXCEPT ![active] = st]

\* GrubController.__init__: construct the controller after a boot
Startup ==
  /\ ctrl = "off"
  /\ LET cur == statusFile[active]
         res == InitBootControlStatus
     IN /\ statusFile' = StoreCurrentOtaStatus(res)
        /\ bootedStatus' = res
        /\ otaStatus' = res
        /\ bootLink' = IF cur \in {"UPDATING", "ROLLBACKING"} /\ IsSwitching
                       THEN active ELSE bootLink
        /\ slotInUseFile' = IF cur = "SUCCESS" /\ slotInUseFile[active] = NONE
                            THEN [slotInUseFile EXCEPT ![active] = active]
                            ELSE slotInUseFile
        /\ loaded' = cur
        /\ sawSwitch' = IsSwitching
        /\ hadSlotInUse' = slotInUseFile[active]
  /\ ctrl' = "up"
  /\ UNCHANGED <<active, versionFile, bootEntry, standbyMounted, op, updateFrom,
                 fellBack, raised>>
  /\ UNCHANGED outsideBoot

(***************************************************************************)
(* Controller operations                                                   *)
(***************************************************************************)
\* number of statements in the try block of pre_update
PreUpdateSteps == 6

\* no controller operation has raised
NoRaise == [error |-> NONE, umount |-> NONE]

OnFailureRaises_UmountError(e, umountOk) ==
  IF umountOk THEN e ELSE "umount_error"

\* GrubController._on_operation_failure: `try: umount_dev(...) finally: raise e`,
\* the exception that leaves the handler
OnFailureRaises(e, umountOk) == e

\* GrubController._on_operation_failure: what the caller receives, after the
\* unmount attempt
Raise(e, umountOk) ==
  [error |-> OnFailureRaises(e, umountOk),
   umount |-> IF umountOk THEN "ok" ELSE "failed"]

\* GrubController._on_operation_failure applied to a status file map
OnOperationFailure(files) == [files EXCEPT ![standby] = "FAILURE"]

PreUpdate_CurrentSlotOnly(version, done, umountOk) ==
  LET st == IF done >= 3 THEN [statusFile EXCEPT ![standby] = "UPDATING"]
            ELSE statusFile
      failed == done < PreUpdateSteps
      mounted == IF done >= 1 THEN TRUE ELSE standbyMounted
  IN /\ statusFile' = IF failed THEN OnOperationFailure(st) ELSE st
     /\ versionFile' = IF done >= 4 THEN [versionFile EXCEPT ![standby] = version]
                       ELSE versionFile
     /\ slotInUseFile' =
          [s \in Slots |->
             IF s = active /\ done >= 5 THEN standby ELSE slotInUseFile[s]]
     /\ standbyMounted' = IF failed /\ umountOk THEN FALSE ELSE mounted
     /\ raised' = IF failed THEN Raise("pre_update_error", umountOk) ELSE NoRaise

\* GrubController.pre_update, of which the first `done` statements completed:
\* 1 _mount_standby, 2 _mount_refroot, 3 status, 4 version,
\* 5 slot_in_use of the current slot, 6 slot_in_use of the standby slot
PreUpdate(version, done, umountOk) ==
  LET st == IF done >= 3 THEN [statusFile EXCEPT ![standby] = "UPDATING"]
            ELSE statusFile
      failed == done < PreUpdateSteps
      mounted == IF done >= 1 THEN TRUE ELSE standbyMounted
  IN /\ statusFile' = IF failed THEN OnOperationFailure(st) ELSE st
     /\ versionFile' = IF done >= 4 THEN [versionFile EXCEPT ![standby] = version]
                       ELSE versionFile
     /\ slotInUseFile' =
          [s \in Slots |->
             IF (s = active /\ done >= 5) \/ (s = standby /\ done >= 6)
             THEN standby ELSE slotInUseFile[s]]
     /\ standbyMounted' = IF failed /\ umountOk THEN FALSE ELSE mounted
     /\ raised' = IF failed THEN Raise("pre_update_error", umountOk) ELSE NoRaise

\* GrubController.post_update: update_fstab, then the custom boot entry and reboot
PostUpdate(done, umountOk) ==
  LET failed == done < 2 IN
  /\ bootEntry' = IF failed THEN bootEntry ELSE standby
  /\ ctrl' = IF failed THEN ctrl ELSE "down"
  /\ statusFile' = IF failed THEN OnOperationFailure(statusFile) ELSE statusFile
  /\ standbyMounted' = IF failed /\ umountOk THEN FALSE ELSE standbyMounted
  /\ raised' = IF failed THEN Raise("post_update_error", umountOk) ELSE NoRaise

\* GrubController.post_rollback: the custom boot entry (rollback) and reboot
PostRollback(done, umountOk) ==
  LET failed == done < 1 IN
  /\ bootEntry' = IF failed THEN bootEntry ELSE standby
  /\ ctrl' = IF failed THEN ctrl ELSE "down"
  /\ statusFile' = IF failed THEN OnOperationFailure(statusFile) ELSE statusFile
  /\ standbyMounted' = IF failed /\ umountOk THEN FALSE ELSE standbyMounted
  /\ raised' = IF failed THEN Raise("post_rollback_error", umountOk) ELSE NoRaise

(***************************************************************************)
(* SpecBoot: the slot lifecycle across reboots, driven as the client       *)
(* drives it (one operation at a time).                                    *)
(***************************************************************************)
\* _BaseOtaClient._update up to the end of enter_update: the status check and
\* UPDATING under the lock, then boot_ctrl_pre_update
BootEnterUpdate ==
  \E v \in Versions, done \in 0..PreUpdateSteps, umountOk \in BOOLEAN :
    /\ ctrl = "up" /\ op = "idle"
    /\ otaStatus \notin {"UPDATING", "ROLLBACKING"}
    /\ PreUpdate(v, done, umountOk)
    /\ otaStatus' = "UPDATING"
    /\ op' = IF done = PreUpdateSteps THEN "updating" ELSE "update_raised"
    /\ updateFrom' = IF done = PreUpdateSteps THEN active ELSE updateFrom
    /\ UNCHANGED <<active, bootLink, bootEntry, ctrl, bootedStatus, loaded,
                   sawSwitch, hadSlotInUse, fellBack>>
    /\ UNCHANGED outsideBoot

\* _BaseOtaClient._update: the local update raises after enter_update
BootUpdateFailed ==
  /\ ctrl = "up" /\ op = "updating"
  /\ op' = "update_raised"
  /\ raised' = NoRaise
  /\ UNCHANGED <<active, statusFile, versionFile, slotInUseFile, bootLink,
                 bootEntry, standbyMounted, ctrl, bootedStatus, otaStatus,
                 loaded, sawSwitch, hadSlotInUse, updateFrom, fellBack>>
  /\ UNCHANGED outsideBoot

\* _BaseOtaClient.update: the except blocks
BootUpdateHandler ==
  /\ ctrl = "up" /\ op = "update_raised"
  /\ otaStatus' = "FAILURE"
  /\ statusFile' = [statusFile EXCEPT ![standby] = "FAILURE"]
  /\ op' = "idle"
  /\ UNCHANGED <<active, versionFile, slotInUseFile, bootLink, bootEntry,
                 standbyMounted, ctrl, bootedStatus, loaded, sawSwitch,
                 hadSlotInUse, updateFrom, fellBack, raised>>
  /\ UNCHANGED outsideBoot

\* _BaseOtaClient.leave_update
BootLeaveUpdate ==
  \E done \in 0..2, umountOk \in BOOLEAN :
    /\ ctrl = "up" /\ op = "updating"
    /\ PostUpdate(done, umountOk)
    /\ op' = IF done < 2 THEN "update_raised" ELSE "idle"
    /\ UNCHANGED <<active, versionFile, slotInUseFile, bootLink, bootedStatus,
                   otaStatus, loaded, sawSwitch, hadSlotInUse, updateFrom,
                   fellBack>>
    /\ UNCHANGED outsideBoot

\* _BaseOtaClient._rollback: enter_rollback under the lock
BootEnterRollback ==
  /\ ctrl = "up" /\ op = "idle"
  /\ otaStatus = "SUCCESS"
  /\ otaStatus' = "ROLLBACKING"
  /\ statusFile' = [statusFile EXCEPT ![standby] = "ROLLBACKING"]
  /\ op' = "rollbacking"
  /\ raised' = NoRaise
  /\ UNCHANGED <<active, versionFile, slotInUseFile, bootLink, bootEntry,
                 standbyMounted, ctrl, bootedStatus, loaded, sawSwitch,
                 hadSlotInUse, updateFrom, fellBack>>
  /\ UNCHANGED outsideBoot

\* _BaseOtaClient.leave_rollback
BootLeaveRollback ==
  \E done \in 0..1, umountOk \in BOOLEAN :
    /\ ctrl = "up" /\ op = "rollbacking"
    /\ PostRollback(done, umountOk)
    /\ op' = IF done < 1 THEN "rollback_raised" ELSE "idle"
    /\ UNCHANGED <<active, versionFile, slotInUseFile, bootLink, bootedStatus,
                   otaStatus, loaded, sawSwitch, hadSlotInUse, updateFrom,
                   fellBack>>
    /\ UNCHANGED outsideBoot

\* _BaseOtaClient.rollback: the except blocks
BootRollbackHandler ==
  /\ ctrl = "up" /\ op = "rollback_raised"
  /\ otaStatus' = "ROLLBACK_FAILURE"
  /\ statusFile' = [statusFile EXCEPT ![standby] = "ROLLBACK_FAILURE"]
  /\ op' = "idle"
  /\ UNCHANGED <<active, versionFile, slotInUseFile, bootLink, bootEntry,
                 standbyMounted, ctrl, bootedStatus, loaded, sawSwitch,
                 hadSlotInUse, updateFrom, fellBack, raised>>
  /\ UNCHANGED outsideBoot

\* the machine restarts (a reboot the client invoked, or a power cycle) and the
\* boot loader boots slot s: the requested entry, or another slot on fallback
Reboot ==
  \E s \in Slots :
    /\ ctrl \in {"up", "down"}
    /\ active' = s
    /\ bootEntry' = NONE
    /\ standbyMounted' = FALSE
    /\ ctrl' = "off"
    /\ op' = "idle"
    /\ fellBack' = (updateFrom # NONE /\ bootEntry = Other(updateFrom)
                      /\ s = updateFrom)
    /\ updateFrom' = NONE
    /\ raised' = NoRaise
    /\ UNCHANGED <<statusFile, versionFile, slotInUseFile, bootLink,
                   bootedStatus, otaStatus, loaded, sawSwitch, hadSlotInUse>>
    /\ UNCHANGED outsideBoot

InitBoot ==
  /\ active = "A"
  /\ statusFile \in {[A |-> "INITIALIZED", B |-> "INITIALIZED"],
                     [A |-> "SUCCESS", B |-> "INITIALIZED"]}
  /\ versionFile = [s \in Slots |-> 0]
  /\ slotInUseFile \in {[A |-> NONE, B |-> NONE], [A |-> "A", B |-> NONE]}
  /\ bootLink = "A"
  /\ bootEntry = NONE
  /\ standbyMounted = FALSE
  /\ ctrl = "off"
  /\ bootedStatus = NONE
  /\ otaStatus = NONE
  /\ op = "idle"
  /\ loaded = NONE
  /\ sawSwitch = FALSE
  /\ hadSlotInUse = NONE
  /\ updateFrom = NONE
  /\ fellBack = FALSE
  /\ raised = NoRaise
  /\ LatchIdle
  /\ FsmIdle
  /\ ClientIdle
  /\ BankIdle

NextBoot ==
  \/ Startup
  \/ BootEnterUpdate
  \/ BootUpdateFailed
  \/ BootUpdateHandler
  \/ BootLeaveUpdate
  \/ BootEnterRollback
  \/ BootLeaveRollback
  \/ BootRollbackHandler
  \/ Reboot

SpecBoot == InitBoot /\ [][NextBoot]_vars

(***************************************************************************)
(* SpecFsm: participants calling start() and proceed() on one FSM object.  *)
(* A thread may be preempted between any two statements of proceed.        *)
(***************************************************************************)
SetLatch(f, state) == [latch EXCEPT ![f][state] = TRUE]

\* OtaStateSync.start
FStart(t) ==
  \E caller \in Participants :
    /\ fpc[t] = "idle" /\ fcalls[t] < MaxCalls
    /\ fcalls' = [fcalls EXCEPT ![t] = @ + 1]
    /\ fcall' = [fcall EXCEPT ![t] =
                   [kind |-> "start", caller |-> caller, expect |-> NONE,
                    timeout |-> FALSE]]
    /\ IF caller # STARTER
       THEN /\ fres' = [fres EXCEPT ![t] = "RuntimeError"]
            /\ fdidSet' = [fdidSet EXCEPT ![t] = FALSE]
            /\ UNCHANGED <<latch, setter>>
       ELSE /\ fres' = [fres EXCEPT ![t] = "ok"]
            /\ fdidSet' = [fdidSet EXCEPT ![t] = ~latch["f1"]["_START"]]
            /\ latch' = SetLatch("f1", "_START")
            /\ setter' = IF latch["f1"]["_START"] THEN setter
                         ELSE [setter EXCEPT !["_START"] = @ \cup {caller}]
    /\ UNCHANGED <<fpc, okExits>>
    /\ UNCHANGED outsideFsm

\* OtaStateSync.proceed: _state_selector
FProceedEnter(t) ==
  \E caller \in Participants, expect \in States, timeout \in BOOLEAN :
    /\ fpc[t] = "idle" /\ fcalls[t] < MaxCalls
    /\ fcalls' = [fcalls EXCEPT ![t] = @ + 1]
    /\ fcall' = [fcall EXCEPT ![t] =
                   [kind |-> "proceed", caller |-> caller, expect |-> expect,
                    timeout |-> timeout]]
    /\ fdidSet' = [fdidSet EXCEPT ![t] = FALSE]
    /\ IF STATE_SWITCH(expect, caller) = NONE
       THEN /\ fres' = [fres EXCEPT ![t] = "RuntimeError"]
            /\ fpc' = fpc
       ELSE /\ fres' = [fres EXCEPT ![t] = "none"]
            /\ fpc' = [fpc EXCEPT ![t] = "waiting"]
    /\ UNCHANGED <<latch, okExits, setter>>
    /\ UNCHANGED outsideFsm

FProceedWait_AnyState(t) ==
  /\ fpc[t] = "waiting"
  /\ fpc' = [fpc EXCEPT ![t] = "body"]
  /\ UNCHANGED <<latch, fcall, fres, fdidSet, fcalls, okExits, setter>>
  /\ UNCHANGED outsideFsm

\* OtaStateSync.proceed: _wait_on.wait returns True
FProceedWait(t) ==
  /\ fpc[t] = "waiting"
  /\ latch["f1"][fcall[t].expect]
  /\ fpc' = [fpc EXCEPT ![t] = "body"]
  /\ UNCHANGED <<latch, fcall, fres, fdidSet, fcalls, okExits, setter>>
  /\ UNCHANGED outsideFsm

FProceedTimeout_EntersScope(t) ==
  /\ fpc[t] = "waiting"
  /\ fcall[t].timeout
  /\ ~latch["f1"][fcall[t].expect]
  /\ fres' = [fres EXCEPT ![t] = "TimeoutError"]
  /\ fpc' = [fpc EXCEPT ![t] = "body"]
  /\ UNCHANGED <<latch, fcall, fdidSet, fcalls, okExits, setter>>
  /\ UNCHANGED outsideFsm

\* OtaStateSync.proceed: the wait times out
FProceedTimeout(t) ==
  /\ fpc[t] = "waiting"
  /\ fcall[t].timeout
  /\ ~latch["f1"][fcall[t].expect]
  /\ fres' = [fres EXCEPT ![t] = "TimeoutError"]
  /\ fpc' = [fpc EXCEPT ![t] = "idle"]
  /\ UNCHANGED <<latch, fcall, fdidSet, fcalls, okExits, setter>>
  /\ UNCHANGED outsideFsm

\* OtaStateSync.proceed: the guarded scope of the caller runs
FProceedBody(t) ==
  /\ fpc[t] = "body"
  /\ fpc' = [fpc EXCEPT ![t] = "finally"]
  /\ UNCHANGED <<latch, fcall, fres, fdidSet, fcalls, okExits, setter>>
  /\ UNCHANGED outsideFsm

\* OtaStateSync.proceed: `if not _next.is_set()`
FProceedCheck(t) ==
  /\ fpc[t] = "finally"
  /\ LET next == STATE_SWITCH(fcall[t].expect, fcall[t].caller) IN
     IF latch["f1"][next]
     THEN /\ fres' = [fres EXCEPT ![t] = "RuntimeError"]
          /\ fpc' = [fpc EXCEPT ![t] = "idle"]
     ELSE /\ fres' = fres
          /\ fpc' = [fpc EXCEPT ![t] = "set"]
  /\ UNCHANGED <<latch, fcall, fdidSet, fcalls, okExits, setter>>
  /\ UNCHANGED outsideFsm

\* OtaStateSync.proceed: `_next.set()`
FProceedSet(t) ==
  /\ fpc[t] = "set"
  /\ LET next == STATE_SWITCH(fcall[t].expect, fcall[t].caller) IN
     /\ latch' = SetLatch("f1", next)
     /\ setter' = [setter EXCEPT ![next] = @ \cup {fcall[t].caller}]
     /\ okExits' = [okExits EXCEPT ![next] = @ + 1]
  /\ fdidSet' = [fdidSet EXCEPT ![t] = TRUE]
  /\ fres' = [fres EXCEPT ![t] = "ok"]
  /\ fpc' = [fpc EXCEPT ![t] = "idle"]
  /\ UNCHANGED <<fcall, fcalls>>
  /\ UNCHANGED outsideFsm

\* the boot variables at rest: a started controller on slot A
BootIdle ==
  /\ active = "A"
  /\ statusFile = [A |-> "SUCCESS", B |-> "INITIALIZED"]
  /\ versionFile = [s \in Slots |-> 0]
  /\ slotInUseFile = [A |-> "A", B |-> NONE]
  /\ bootLink = "A"
  /\ bootEntry = NONE
  /\ standbyMounted = FALSE
  /\ ctrl = "up"
  /\ bootedStatus = "SUCCESS"
  /\ otaStatus = "SUCCESS"
  /\ op = "idle"
  /\ loaded = "SUCCESS"
  /\ sawSwitch = FALSE
  /\ hadSlotInUse = "A"
  /\ updateFrom = NONE
  /\ fellBack = FALSE
  /\ raised = NoRaise

InitFsm ==
  /\ BootIdle
  /\ LatchIdle
  /\ FsmIdle
  /\ ClientIdle
  /\ BankIdle

NextFsm ==
  \E t \in FThreads :
    \/ FStart(t)
    \/ FProceedEnter(t)
    \/ FProceedWait(t)
    \/ FProceedTimeout(t)
    \/ FProceedBody(t)
    \/ FProceedCheck(t)
    \/ FProceedSet(t)

SpecFsm == InitFsm /\ [][NextFsm]_vars

(***************************************************************************)
(* Claims on the FSM (SpecFsm)                                             *)
(***************************************************************************)
\* C8: among the proceed calls that target one next state, at most one
\* leaves its guarded scope normally (having set the latch); every other one
\* raises because the latch was already set.
C8_SetExactlyOnce ==
  \A s \in States : okExits[s] <= 1

\* the participant the state machine definition designates to set a latch
Designated(s) ==
  IF s \in {"_START", "_S0", "_END"} THEN P1_ota_service ELSE P2_ota_client

\* C9: a latch is set only by its designated participant (_START, _S0 and
\* _END by the service, _S1 and _S2 by the client); start() by another caller
\* and proceed() with any other (state, caller) pair end with an error and
\* set no latch.
C9_DesignatedParticipant ==
  /\ \A s \in States : setter[s] \subseteq {Designated(s)}
  /\ \A t \in FThreads :
       (fpc[t] = "idle" /\ fcall[t].kind = "start" /\ fcall[t].caller # P1_ota_service)
          => (fres[t] = "RuntimeError" /\ ~fdidSet[t])
  /\ \A t \in FThreads :
       (/\ fpc[t] = "idle" /\ fcall[t].kind = "proceed"
        /\ <<fcall[t].expect, fcall[t].caller>> \notin
             {<<"_START", P1_ota_service>>, <<"_S0", P2_ota_client>>,
              <<"_S1", P2_ota_client>>, <<"_S2", P1_ota_service>>})
          => (fres[t] = "RuntimeError" /\ ~fdidSet[t])

C9_Witness ==
  /\ latch["f1"]["_S0"] /\ ~latch["f1"]["_S1"]
  /\ \E t \in FThreads :
       /\ fpc[t] = "idle" /\ fcall[t].kind = "proceed"
       /\ fcall[t].expect = "_S0" /\ fcall[t].caller = P1_ota_service
       /\ fres[t] = "RuntimeError"

(***************************************************************************)
(* Claims on the startup finalization (SpecBoot)                           *)
(***************************************************************************)
\* C2: after an update was started and the boot entry switched to the target,
\* a boot of the previously active slot is finalized to FAILURE, whatever
\* status that slot held.
C2_FallbackIsFailure ==
  (ctrl # "off" /\ fellBack) => bootedStatus = "FAILURE"

C4_FinalizeRollback ==
  (ctrl # "off" /\ loaded = "ROLLBACKING") =>
     bootedStatus = (IF sawSwitch THEN "SUCCESS" ELSE "ROLLBACK_FAILURE")

\* C5: a start on a slot whose status is SUCCESS and whose slot_in_use file
\* exists yields FAILURE when slot_in_use differs from the booted slot and
\* SUCCESS when it equals the booted slot; the value is stored.
C5_SuccessCrossCheck ==
  (ctrl # "off" /\ loaded = "SUCCESS" /\ hadSlotInUse # NONE) =>
     /\ bootedStatus = (IF hadSlotInUse # active THEN "FAILURE" ELSE "SUCCESS")
     /\ statusFile[active] = bootedStatus

C5_Witness ==
  /\ ctrl = "up" /\ loaded = "SUCCESS" /\ hadSlotInUse = standby
  /\ bootedStatus = "FAILURE" /\ statusFile[active] = "FAILURE"

(***************************************************************************)
(* SpecClient: two threads calling update() / rollback() on one client,    *)
(* each update with an FSM object of its own that the service (P1) drives. *)
(***************************************************************************)
\* OtaStatusControlMixin.check_update_status: raises OtaErrorBusy
UpdateBusy == otaStatus \in {"UPDATING", "ROLLBACKING"}

\* OtaStatusControlMixin.check_rollback_status: raises OtaErrorBusy
RollbackBusy == otaStatus # "SUCCESS"

WaitOnEnd_NoBlock(f) == TRUE

\* fsm.wait_on(fsm._END) of _update: returns once the latch is set
WaitOnEnd(f) == latch[f]["_END"]

\* the except blocks of update(): store_standby_ota_status(FAILURE)
StoreStandbyFailure(files) == [files EXCEPT ![standby] = "FAILURE"]

\* a call begins: the caller hands in a new FSM object; no request is served
\* once the reboot has been issued
BeginCall(t, c) ==
  /\ ctrl = "up"
  /\ pc[t] = "idle" /\ ncalls[t] < MaxClientCalls
  /\ ncalls' = [ncalls EXCEPT ![t] = @ + 1]
  /\ call' = [call EXCEPT ![t] = c]
  /\ preDone' = [preDone EXCEPT ![t] = FALSE]
  /\ postInvoked' = [postInvoked EXCEPT ![t] = FALSE]
  /\ reboots' = [reboots EXCEPT ![t] = 0]
  /\ switched' = [switched EXCEPT ![t] = FALSE]
  /\ err' = [err EXCEPT ![t] = NoErr]

\* _BaseOtaClient.update up to the end of the locked block of _update
UpdateCall(t) ==
  \E cookiesOk \in BOOLEAN :
    /\ BeginCall(t, [kind |-> "update", version |-> VersionOf(t),
                     cookiesOk |-> cookiesOk])
    /\ latch' = [latch EXCEPT ![FsmOf(t)] = FsmInit]
    /\ svc' = [svc EXCEPT ![FsmOf(t)] = "new"]
    /\ IF ~cookiesOk
       THEN \* json.loads raises JSONDecodeError: the recoverable handler
            /\ otaStatus' = "FAILURE"
            /\ statusFile' = StoreStandbyFailure(statusFile)
            /\ failureType' = "RECOVERABLE"
            /\ failureReason' = "JSONDecodeError"
            /\ ret' = [ret EXCEPT ![t] = "RECOVERABLE"]
            /\ UNCHANGED <<pc, updatePhase, stats>>
       ELSE IF UpdateBusy
       THEN \* OtaErrorBusy: nothing is set
            /\ ret' = [ret EXCEPT ![t] = "RECOVERABLE"]
            /\ UNCHANGED <<pc, otaStatus, statusFile, failureType,
                           failureReason, updatePhase, stats>>
       ELSE /\ otaStatus' = "UPDATING"
            /\ updatePhase' = "INITIAL"
            /\ failureType' = "NO_FAILURE"
            /\ failureReason' = ""
            /\ stats' = EmptyStats
            /\ ret' = [ret EXCEPT ![t] = "none"]
            /\ pc' = [pc EXCEPT ![t] = "locked"]
            /\ UNCHANGED statusFile
    /\ UNCHANGED <<versionFile, slotInUseFile, bootEntry, standbyMounted, ctrl,
                   raised>>
    /\ UNCHANGED outsideClient

\* the update() call of thread t was rejected as busy: it returned
\* RECOVERABLE from the OtaErrorBusy handler
BusyRejected(t) ==
  /\ pc[t] = "idle"
  /\ call[t].kind = "update"
  /\ call[t].cookiesOk
  /\ ret[t] = "RECOVERABLE"
  /\ err[t] = NoErr

AtProceedS0_IgnoringBusy(t) == pc[t] = "locked" \/ BusyRejected(t)

\* _update has left the locked block, check_update_status having passed, and
\* is at its first fsm.proceed
AtProceedS0(t) == pc[t] = "locked"

\* _update: `with fsm.proceed(fsm._P2_ota_client, expect=fsm._S0)`
SignalS1(t) ==
  /\ AtProceedS0(t)
  /\ latch[FsmOf(t)]["_S0"]
  /\ IF latch[FsmOf(t)]["_S1"]
     THEN /\ pc' = [pc EXCEPT ![t] = "raised"]
          /\ err' = [err EXCEPT ![t] = [kind |-> "unrecoverable", msg |-> "error"]]
          /\ latch' = latch
     ELSE /\ pc' = [pc EXCEPT ![t] = "pre"]
          /\ err' = err
          /\ latch' = SetLatch(FsmOf(t), "_S1")
  /\ UNCHANGED <<statusFile, versionFile, slotInUseFile, bootEntry,
                 standbyMounted, ctrl, otaStatus, raised>>
  /\ UNCHANGED <<call, ret, ncalls, failureType, failureReason, updatePhase,
                 stats, svc, preDone, postInvoked, reboots, switched>>
  /\ UNCHANGED outsideClient

\* _BaseOtaClient.enter_update
EnterUpdate(t) ==
  \E done \in 0..PreUpdateSteps, umountOk \in BOOLEAN :
    /\ pc[t] = "pre"
    /\ PreUpdate(call[t].version, done, umountOk)
    /\ IF done = PreUpdateSteps
       THEN /\ pc' = [pc EXCEPT ![t] = "meta"]
            /\ preDone' = [preDone EXCEPT ![t] = TRUE]
            /\ err' = err
       ELSE /\ pc' = [pc EXCEPT ![t] = "raised"]
            /\ preDone' = preDone
            /\ err' = [err EXCEPT ![t] = [kind |-> "unrecoverable", msg |-> "error"]]
    /\ UNCHANGED <<bootEntry, ctrl, otaStatus, latch>>
    /\ UNCHANGED <<call, ret, ncalls, failureType, failureReason, updatePhase,
                   stats, svc, postInvoked, reboots, switched>>
    /\ UNCHANGED outsideClient

\* a step of the local update that touches neither the slot files nor the FSM
LocalStep ==
  /\ UNCHANGED <<statusFile, versionFile, slotInUseFile, bootEntry,
                 standbyMounted, ctrl, otaStatus, raised, latch>>
  /\ UNCHANGED <<call, ret, ncalls, failureType, failureReason, svc, preDone,
                 postInvoked, reboots, switched>>
  /\ UNCHANGED outsideClient

\* _update: phase METADATA and _process_metadata
ProcessMetadata(t) ==
  \E outcome \in {"ok", "recoverable", "unrecoverable"} :
    /\ pc[t] = "meta"
    /\ updatePhase' = "METADATA"
    /\ IF outcome = "ok"
       THEN /\ pc' = [pc EXCEPT ![t] = "dirs"]
            /\ err' = err
       ELSE /\ pc' = [pc EXCEPT ![t] = "raised"]
            /\ err' = [err EXCEPT ![t] = [kind |-> outcome, msg |-> "error"]]
    /\ stats' = stats
    /\ LocalStep

\* create_standby_bank: _prepare_meta_files and _process_dirs
ProcessDirs(t) ==
  \E ok \in BOOLEAN :
    /\ pc[t] = "dirs"
    /\ updatePhase' = "DIRECTORY"
    /\ IF ok
       THEN /\ pc' = [pc EXCEPT ![t] = "regulars"]
            /\ err' = err
       ELSE /\ pc' = [pc EXCEPT ![t] = "raised"]
            /\ err' = [err EXCEPT ![t] = [kind |-> "unrecoverable", msg |-> "error"]]
    /\ stats' = stats
    /\ LocalStep

\* create_standby_bank: _process_regulars, one regular file processed
ProcessRegular(t) ==
  /\ pc[t] = "regulars"
  /\ stats.regular_files_processed < MaxFiles
  /\ updatePhase' = "REGULAR"
  /\ stats' = [stats EXCEPT
                 !.total_regular_files = MaxFiles,
                 !.regular_files_processed = stats.regular_files_processed + 1]
  /\ UNCHANGED <<pc, err>>
  /\ LocalStep

\* create_standby_bank: a regular file cannot be produced, the download failed
\* for good (recoverable) or the standby slot cannot be written (unrecoverable)
RegularFailed(t) ==
  \E kind \in {"recoverable", "unrecoverable"} :
    /\ pc[t] = "regulars"
    /\ updatePhase' = "REGULAR"
    /\ pc' = [pc EXCEPT ![t] = "raised"]
    /\ err' = [err EXCEPT ![t] = [kind |-> kind, msg |-> "error"]]
    /\ stats' = stats
    /\ LocalStep

\* create_standby_bank: _process_symlinks and _process_persistents
ProcessPersistents(t) ==
  /\ pc[t] = "regulars"
  /\ stats.regular_files_processed >= MaxFiles
  /\ updatePhase' = "PERSISTENT"
  /\ pc' = [pc EXCEPT ![t] = "post"]
  /\ UNCHANGED <<err, stats>>
  /\ LocalStep

SignalS2_NoSet(t) ==
  /\ pc[t] = "post"
  /\ latch[FsmOf(t)]["_S1"]
  /\ updatePhase' = "POST_PROCESSING"
  /\ pc' = [pc EXCEPT ![t] = "endwait"]
  /\ UNCHANGED <<statusFile, versionFile, slotInUseFile, bootEntry,
                 standbyMounted, ctrl, otaStatus, raised, latch, err>>
  /\ UNCHANGED <<call, ret, ncalls, failureType, failureReason, stats, svc,
                 preDone, postInvoked, reboots, switched>>
  /\ UNCHANGED outsideClient

\* _update: phase POST_PROCESSING and
\* `with fsm.proceed(fsm._P2_ota_client, expect=fsm._S1)`
SignalS2(t) ==
  /\ pc[t] = "post"
  /\ latch[FsmOf(t)]["_S1"]
  /\ updatePhase' = "POST_PROCESSING"
  /\ IF latch[FsmOf(t)]["_S2"]
     THEN /\ pc' = [pc EXCEPT ![t] = "raised"]
          /\ err' = [err EXCEPT ![t] = [kind |-> "unrecoverable", msg |-> "error"]]
          /\ latch' = latch
     ELSE /\ pc' = [pc EXCEPT ![t] = "endwait"]
          /\ err' = err
          /\ latch' = SetLatch(FsmOf(t), "_S2")
  /\ UNCHANGED <<statusFile, versionFile, slotInUseFile, bootEntry,
                 standbyMounted, ctrl, otaStatus, raised>>
  /\ UNCHANGED <<call, ret, ncalls, failureType, failureReason, stats, svc,
                 preDone, postInvoked, reboots, switched>>
  /\ UNCHANGED outsideClient

\* _update: fsm.wait_on(fsm._END), leave_update, and _result_ok of update()
LeaveUpdate(t) ==
  \E done \in 0..2, umountOk \in BOOLEAN :
    /\ pc[t] = "endwait"
    /\ WaitOnEnd(FsmOf(t))
    /\ postInvoked' = [postInvoked EXCEPT ![t] = TRUE]
    /\ PostUpdate(done, umountOk)
    /\ IF done = 2
       THEN /\ reboots' = [reboots EXCEPT ![t] = @ + 1]
            /\ switched' = [switched EXCEPT ![t] = TRUE]
            /\ failureType' = "NO_FAILURE"
            /\ failureReason' = ""
            /\ ret' = [ret EXCEPT ![t] = "NO_FAILURE"]
            /\ pc' = [pc EXCEPT ![t] = "idle"]
            /\ err' = err
       ELSE /\ pc' = [pc EXCEPT ![t] = "raised"]
            /\ err' = [err EXCEPT ![t] = [kind |-> "unrecoverable", msg |-> "error"]]
            /\ UNCHANGED <<reboots, switched, failureType, failureReason, ret>>
    /\ UNCHANGED <<versionFile, slotInUseFile, otaStatus, latch>>
    /\ UNCHANGED <<call, ncalls, updatePhase, stats, svc, preDone>>
    /\ UNCHANGED outsideClient

\* update(): the except blocks for OtaErrorRecoverable and for Exception
UpdateHandler(t) ==
  /\ pc[t] = "raised" /\ call[t].kind = "update"
  /\ otaStatus' = "FAILURE"
  /\ statusFile' = StoreStandbyFailure(statusFile)
  /\ failureType' = IF err[t].kind = "recoverable" THEN "RECOVERABLE"
                    ELSE "UNRECOVERABLE"
  /\ failureReason' = err[t].msg
  /\ ret' = [ret EXCEPT ![t] = failureType']
  /\ pc' = [pc EXCEPT ![t] = "idle"]
  /\ UNCHANGED <<versionFile, slotInUseFile, bootEntry, standbyMounted, ctrl,
                 raised, latch>>
  /\ UNCHANGED <<call, ncalls, err, updatePhase, stats, svc, preDone,
                 postInvoked, reboots, switched>>
  /\ UNCHANGED outsideClient

EnterRollbackAccepted_NoCheck == TRUE

\* _BaseOtaClient.enter_rollback: check_rollback_status comes first, and its
\* OtaErrorBusy leaves enter_rollback before anything is set
EnterRollbackAccepted == ~RollbackBusy

\* _BaseOtaClient.rollback up to the end of the locked block of _rollback
RollbackCall(t) ==
  /\ BeginCall(t, [kind |-> "rollback", version |-> 0, cookiesOk |-> TRUE])
  /\ IF ~EnterRollbackAccepted
     THEN /\ ret' = [ret EXCEPT ![t] = "RECOVERABLE"]
          /\ UNCHANGED <<pc, otaStatus, statusFile, failureType, failureReason>>
     ELSE /\ otaStatus' = "ROLLBACKING"
          /\ statusFile' = [statusFile EXCEPT ![standby] = "ROLLBACKING"]
          /\ failureType' = "NO_FAILURE"
          /\ failureReason' = ""
          /\ ret' = [ret EXCEPT ![t] = "none"]
          /\ pc' = [pc EXCEPT ![t] = "rb_leave"]
  /\ UNCHANGED <<versionFile, slotInUseFile, bootEntry, standbyMounted, ctrl,
                 raised, latch>>
  /\ UNCHANGED <<updatePhase, stats, svc>>
  /\ UNCHANGED outsideClient

\* _BaseOtaClient.leave_rollback, and _result_ok of rollback()
LeaveRollback(t) ==
  \E done \in 0..1, umountOk \in BOOLEAN :
    /\ pc[t] = "rb_leave"
    /\ PostRollback(done, umountOk)
    /\ IF done = 1
       THEN /\ reboots' = [reboots EXCEPT ![t] = @ + 1]
            /\ switched' = [switched EXCEPT ![t] = TRUE]
            /\ failureType' = "NO_FAILURE"
            /\ failureReason' = ""
            /\ ret' = [ret EXCEPT ![t] = "NO_FAILURE"]
            /\ pc' = [pc EXCEPT ![t] = "idle"]
            /\ err' = err
       ELSE /\ pc' = [pc EXCEPT ![t] = "raised"]
            /\ err' = [err EXCEPT ![t] = [kind |-> "unrecoverable", msg |-> "error"]]
            /\ UNCHANGED <<reboots, switched, failureType, failureReason, ret>>
    /\ UNCHANGED <<versionFile, slotInUseFile, otaStatus, latch>>
    /\ UNCHANGED <<call, ncalls, updatePhase, stats, svc, preDone, postInvoked>>
    /\ UNCHANGED outsideClient

\* rollback(): the except blocks for OtaErrorRecoverable and for Exception
RollbackHandler(t) ==
  /\ pc[t] = "raised" /\ call[t].kind = "rollback"
  /\ otaStatus' = "ROLLBACK_FAILURE"
  /\ statusFile' = [statusFile EXCEPT ![standby] = "ROLLBACK_FAILURE"]
  /\ failureType' = IF err[t].kind = "recoverable" THEN "RECOVERABLE"
                    ELSE "UNRECOVERABLE"
  /\ failureReason' = err[t].msg
  /\ ret' = [ret EXCEPT ![t] = failureType']
  /\ pc' = [pc EXCEPT ![t] = "idle"]
  /\ UNCHANGED <<versionFile, slotInUseFile, bootEntry, standbyMounted, ctrl,
                 raised, latch>>
  /\ UNCHANGED <<call, ncalls, err, updatePhase, stats, svc, preDone,
                 postInvoked, reboots, switched>>
  /\ UNCHANGED outsideClient

\* a step of the service on the FSM object f
SvcStep(f, from, to, state) ==
  /\ svc[f] = from
  /\ svc' = [svc EXCEPT ![f] = to]
  /\ latch' = SetLatch(f, state)
  /\ UNCHANGED bootVars
  /\ UNCHANGED <<pc, call, ret, ncalls, err, failureType, failureReason,
                 updatePhase, stats, preDone, postInvoked, reboots, switched>>
  /\ UNCHANGED fsmVars
  /\ UNCHANGED bankVars

\* the service: fsm.start(caller=fsm._P1_ota_service)
SvcStart(t) ==
  /\ ncalls[t] > 0 /\ call[t].kind = "update"
  /\ SvcStep(FsmOf(t), "new", "started", "_START")

\* the service: `with fsm.proceed(fsm._P1_ota_service, expect=fsm._START)`
SvcScrubbed(t) ==
  /\ latch[FsmOf(t)]["_START"] /\ ~latch[FsmOf(t)]["_S0"]
  /\ SvcStep(FsmOf(t), "started", "s0", "_S0")

\* the service: `with fsm.proceed(fsm._P1_ota_service, expect=fsm._S2)`
SvcEnd(t) ==
  /\ latch[FsmOf(t)]["_S2"] /\ ~latch[FsmOf(t)]["_END"]
  /\ SvcStep(FsmOf(t), "s0", "done", "_END")

\* _BaseOtaClient._status: the statistics as the call leaves them
StatusStatistics ==
  IF otaStatus = "UPDATING"
  THEN [stats EXCEPT !.total_elapsed_time = ElapsedTime]
  ELSE stats

\* _BaseOtaClient._status: the dict the call returns
StatusReport ==
  [status |-> otaStatus,
   failure_type |-> failureType,
   failure_reason |-> failureReason,
   version |-> versionFile[active],
   phase |-> updatePhase,
   update_progress |-> StatusStatistics]

\* _BaseOtaClient.status, called from any thread at any time
Status ==
  /\ ctrl = "up"
  /\ stats' = StatusStatistics
  /\ UNCHANGED <<pc, err, updatePhase>>
  /\ LocalStep

InitClient ==
  /\ \E st \in {"INITIALIZED", "SUCCESS"} :
       /\ statusFile = [A |-> st, B |-> "INITIALIZED"]
       /\ bootedStatus = st
       /\ otaStatus = st
       /\ loaded = st
  /\ active = "A"
  /\ versionFile = [s \in Slots |-> 0]
  /\ slotInUseFile = [A |-> "A", B |-> NONE]
  /\ bootLink = "A"
  /\ bootEntry = NONE
  /\ standbyMounted = FALSE
  /\ ctrl = "up"
  /\ op = "idle"
  /\ sawSwitch = FALSE
  /\ hadSlotInUse = "A"
  /\ updateFrom = NONE
  /\ fellBack = FALSE
  /\ raised = NoRaise
  /\ LatchIdle
  /\ FsmIdle
  /\ ClientIdle
  /\ BankIdle

NextClient ==
  \/ Status
  \/ \E t \in CThreads :
    \/ UpdateCall(t)
    \/ SignalS1(t)
    \/ EnterUpdate(t)
    \/ ProcessMetadata(t)
    \/ ProcessDirs(t)
    \/ ProcessRegular(t)
    \/ RegularFailed(t)
    \/ ProcessPersistents(t)
    \/ SignalS2(t)
    \/ LeaveUpdate(t)
    \/ UpdateHandler(t)
    \/ RollbackCall(t)
    \/ LeaveRollback(t)
    \/ RollbackHandler(t)
    \/ SvcStart(t)
    \/ SvcScrubbed(t)
    \/ SvcEnd(t)

SpecClient == InitClient /\ [][NextClient]_vars

\* the steps of the thread running update() for call t, after the locked block
ClientStep(t) ==
  \/ SignalS1(t)
  \/ EnterUpdate(t)
  \/ ProcessMetadata(t)
  \/ ProcessDirs(t)
  \/ ProcessRegular(t)
  \/ RegularFailed(t)
  \/ ProcessPersistents(t)
  \/ SignalS2(t)
  \/ LeaveUpdate(t)
  \/ UpdateHandler(t)

\* the steps of the service on the FSM object it handed to call t
ServiceStep(t) == SvcStart(t) \/ SvcScrubbed(t) \/ SvcEnd(t)

\* number of update() calls a thread makes in SpecOrch
MaxOrchCalls == 1

\* an update() call comes in
OrchUpdateCall(t) == ncalls[t] < MaxOrchCalls /\ UpdateCall(t)

\* SpecOrch: the update() calls and the service alone (no rollback() and no
\* status() call comes in), under fair scheduling: a thread that can take a
\* step of update() is run in the end, and so is the service; the update()
\* calls themselves come from outside and need not come
NextOrch ==
  \E t \in CThreads :
    \/ OrchUpdateCall(t)
    \/ SignalS1(t)
    \/ EnterUpdate(t)
    \/ ProcessMetadata(t)
    \/ ProcessDirs(t)
    \/ ProcessRegular(t)
    \/ RegularFailed(t)
    \/ ProcessPersistents(t)
    \/ SignalS2(t)
    \/ LeaveUpdate(t)
    \/ UpdateHandler(t)
    \/ SvcStart(t)
    \/ SvcScrubbed(t)
    \/ SvcEnd(t)

SpecOrch ==
  /\ InitClient
  /\ [][NextOrch]_vars
  /\ \A t \in CThreads : WF_vars(ClientStep(t)) /\ WF_vars(ServiceStep(t))

(***************************************************************************)
(* Claims on the client facade (SpecClient)                                *)
(***************************************************************************)
\* an update() call of thread u is in flight: it has set the live status to
\* UPDATING under the lock and has not returned
InFlightUpdate(u) == call[u].kind = "update" /\ pc[u] # "idle"

\* C1: while one update() call is in flight, every further update() or
\* rollback() call returns RECOVERABLE at once and leaves the live status, the
\* persisted slot statuses, failure_type, failure_reason, the update phase and
\* the statistics counters exactly as they were, whatever its arguments.
C1_BusyCallMutatesNothing ==
  [][\A t \in CThreads :
       (/\ pc[t] = "idle"
        /\ ncalls'[t] = ncalls[t] + 1
        /\ \E u \in CThreads \ {t} : InFlightUpdate(u))
       => /\ ret'[t] = "RECOVERABLE"
          /\ pc'[t] = "idle"
          /\ UNCHANGED <<otaStatus, statusFile, failureType, failureReason,
                         updatePhase, stats>>]_vars

\* C6: the _S1 latch of an update becomes set only once pre_update of that
\* update has returned and the standby slot's status is stored as UPDATING.
C6_S1AfterPreUpdate ==
  [][\A t \in CThreads :
       (~latch[FsmOf(t)]["_S1"] /\ latch'[FsmOf(t)]["_S1"])
       => (preDone'[t] /\ statusFile'[standby] = "UPDATING")]_vars

\* C7: post_update of an update is invoked only with the _END latch set by the
\* service (S2 -> END); an update that returned NO_FAILURE issued the reboot
\* exactly once, an update that returned a failure never issued it.
C7_RebootAfterEnd ==
  \A t \in CThreads :
    /\ postInvoked[t] => (latch[FsmOf(t)]["_END"] /\ svc[FsmOf(t)] = "done")
    /\ (call[t].kind = "update" /\ pc[t] = "idle" /\ ret[t] = "NO_FAILURE")
         => reboots[t] = 1
    /\ (call[t].kind = "update" /\ pc[t] = "idle"
        /\ ret[t] \in {"RECOVERABLE", "UNRECOVERABLE"})
         => reboots[t] = 0
    /\ (call[t].kind = "update" /\ pc[t] = "raised") => reboots[t] = 0

C7_Witness ==
  \E t \in CThreads :
    /\ call[t].kind = "update" /\ pc[t] = "idle" /\ ret[t] = "NO_FAILURE"
    /\ postInvoked[t] /\ reboots[t] = 1
    /\ latch[FsmOf(t)]["_END"] /\ bootEntry = standby /\ ctrl = "down"

\* C10: when update() ends in the recoverable handler after its pre_update
\* succeeded, it returns RECOVERABLE and then the live status is FAILURE, the
\* standby slot's persisted status is FAILURE with the requested version still
\* recorded, failure_type is RECOVERABLE with a non-empty failure_reason, the
\* boot entry has not been switched and no reboot has been issued.
C10_RecoverableFailure ==
  [][\A t \in CThreads :
       (/\ pc[t] = "raised" /\ pc'[t] = "idle"
        /\ call[t].kind = "update"
        /\ err[t].kind = "recoverable"
        /\ preDone[t])
       => /\ ret'[t] = "RECOVERABLE"
          /\ otaStatus' = "FAILURE"
          /\ statusFile'[standby] = "FAILURE"
          /\ versionFile'[standby] = call[t].version
          /\ failureType' = "RECOVERABLE"
          /\ failureReason' # ""
          /\ bootEntry' = NONE
          /\ ctrl' = "up"
          /\ reboots'[t] = 0]_vars

\* C11: rollback() sets the status to ROLLBACKING and reaches post_rollback
\* only when the live status is SUCCESS at the call; called in any other
\* status it returns at once, writes ROLLBACKING to neither slot and never
\* gets to post_rollback (which only an accepted rollback reaches).
C11_RollbackOnlyFromSuccess ==
  [][\A t \in CThreads :
       /\ (/\ pc[t] = "idle" /\ ncalls'[t] = ncalls[t] + 1
           /\ call'[t].kind = "rollback")
          => IF otaStatus = "SUCCESS"
             THEN /\ otaStatus' = "ROLLBACKING"
                  /\ statusFile'[standby] = "ROLLBACKING"
                  /\ pc'[t] = "rb_leave"
             ELSE /\ pc'[t] = "idle"
                  /\ UNCHANGED <<otaStatus, statusFile, bootEntry, ctrl>>
       /\ (pc[t] # "rb_leave" /\ pc'[t] = "rb_leave")
          => (otaStatus = "SUCCESS" /\ call'[t].kind = "rollback")
       /\ (\E s \in Slots : statusFile[s] # "ROLLBACKING"
                            /\ statusFile'[s] = "ROLLBACKING")
          => otaStatus = "SUCCESS"
       /\ (call[t].kind = "rollback" /\ pc[t] # "idle" /\ pc'[t] # pc[t]
           /\ (bootEntry' # bootEntry \/ ctrl' # ctrl))
          => pc[t] = "rb_leave"]_vars

C11_Witness ==
  \E t \in CThreads :
    /\ call[t].kind = "rollback" /\ pc[t] = "idle" /\ ret[t] = "RECOVERABLE"
    /\ otaStatus \in {"INITIALIZED", "FAILURE"}
    /\ \A s \in Slots : statusFile[s] # "ROLLBACKING"
    /\ bootEntry = NONE /\ ctrl = "up"

\* C12: in every update and every rollback, slot_in_use names the target slot
\* before the boot entry is switched to it: whenever the boot entry points at
\* the standby slot, slot_in_use of both slots names the standby slot.
C12_SlotInUseBeforeSwitch ==
  (bootEntry # NONE /\ bootEntry = standby)
    => (slotInUseFile[active] = standby /\ slotInUseFile[standby] = standby)

\* C13: when pre_update(version) returns successfully, the standby slot's
\* persisted status is UPDATING, its persisted version is the requested
\* version, and slot_in_use of both the active and the standby slot names the
\* standby slot.
C13_PreUpdatePostState ==
  [][\A t \in CThreads :
       (pc[t] = "pre" /\ pc'[t] = "meta")
       => /\ raised' = NoRaise
          /\ statusFile'[standby] = "UPDATING"
          /\ versionFile'[standby] = call[t].version
          /\ slotInUseFile'[active] = standby
          /\ slotInUseFile'[standby] = standby]_vars

C13_Witness ==
  \E t \in CThreads :
    /\ pc[t] = "meta" /\ preDone[t] /\ raised = NoRaise
    /\ statusFile[standby] = "UPDATING"
    /\ versionFile[standby] = VersionOf(t)
    /\ slotInUseFile = [s \in Slots |-> standby]

\* C14: when pre_update, post_update or post_rollback fails with error e, the
\* failure handler has written FAILURE to the standby slot's status, has
\* attempted the unmount of the standby slot (which is unmounted when the
\* attempt went well) and the caller receives e itself, also when the unmount
\* attempt failed.
C14_OnOperationFailure ==
  [][\A t \in CThreads :
       (pc[t] \in {"pre", "endwait", "rb_leave"} /\ pc'[t] = "raised")
       => /\ statusFile'[standby] = "FAILURE"
          /\ raised'.umount \in {"ok", "failed"}
          /\ (raised'.umount = "ok" => ~standbyMounted')
          /\ raised'.error = CASE pc[t] = "pre" -> "pre_update_error"
                               [] pc[t] = "endwait" -> "post_update_error"
                               [] pc[t] = "rb_leave" -> "post_rollback_error"
          /\ UNCHANGED <<bootEntry, ctrl>>]_vars

C14_Witness ==
  \E t \in CThreads :
    /\ pc[t] = "raised" /\ call[t].kind = "update" /\ postInvoked[t]
    /\ raised = [error |-> "post_update_error", umount |-> "failed"]
    /\ standbyMounted /\ statusFile[standby] = "FAILURE"

(***************************************************************************)
(* SpecHardlink: the tasks handling the entries of one hardlink group ask  *)
(* HardlinkRegister for the group's tracker; the writer reports done or    *)
(* failed, the readers subscribe.                                          *)
(***************************************************************************)
\* weakref.WeakValueDictionary / WeakKeyDictionary: the group's entry is gone
\* once no strong reference to its _WeakRef is left in the tracker's holder
Reclaim(reg, trackers) ==
  IF reg # 0 /\ trackers[reg].refs = 0 THEN 0 ELSE reg

\* _HardlinkTracker.__init__
NewTracker(path, count) ==
  [ready |-> FALSE, failed |-> FALSE, refs |-> count, path |-> path]

\* HardlinkRegister.get_tracker, under the lock of the register
HlGetTracker(e) ==
  /\ hpc[e] = "start"
  /\ IF hreg # 0
     THEN /\ hgot' = [hgot EXCEPT ![e] = [tracker |-> hreg, writer |-> FALSE]]
          /\ hpc' = [hpc EXCEPT ![e] = "sub"]
          /\ UNCHANGED <<hreg, htr>>
     ELSE LET trackers == Append(htr, NewTracker(e, hn - 1)) IN
          /\ htr' = trackers
          /\ hreg' = Reclaim(Len(trackers), trackers)
          /\ hgot' = [hgot EXCEPT ![e] = [tracker |-> Len(trackers),
                                          writer |-> TRUE]]
          /\ hpc' = [hpc EXCEPT ![e] = "writing"]
  /\ UNCHANGED <<hn, hres>>
  /\ UNCHANGED outsideHl

\* _HardlinkTracker.writer_done
HlWriterDone(e) ==
  /\ hpc[e] = "writing"
  /\ htr' = [htr EXCEPT ![hgot[e].tracker].ready = TRUE]
  /\ hpc' = [hpc EXCEPT ![e] = "done"]
  /\ UNCHANGED <<hn, hreg, hgot, hres>>
  /\ UNCHANGED outsideHl

\* _HardlinkTracker.writer_on_failed: _failed.set(), _ref_holder.clear()
HlWriterOnFailed(e) ==
  /\ hpc[e] = "writing"
  /\ LET trackers == [htr EXCEPT ![hgot[e].tracker].failed = TRUE,
                                 ![hgot[e].tracker].refs = 0] IN
     /\ htr' = trackers
     /\ hreg' = Reclaim(hreg, trackers)
  /\ hpc' = [hpc EXCEPT ![e] = "failed"]
  /\ UNCHANGED <<hn, hgot, hres>>
  /\ UNCHANGED outsideHl

FirstCopyReady_NoWait(tr) == TRUE

\* _HardlinkTracker.subscribe: `self._first_copy_ready.is_set()`
FirstCopyReady(tr) == tr.ready

\* _HardlinkTracker.subscribe: `while not self._first_copy_ready.is_set()`
HlSubscribeCheckReady(e) ==
  /\ hpc[e] = "sub"
  /\ hpc' = [hpc EXCEPT ![e] = IF FirstCopyReady(htr[hgot[e].tracker])
                               THEN "pop" ELSE "chk"]
  /\ UNCHANGED <<hn, hreg, htr, hgot, hres>>
  /\ UNCHANGED outsideHl

\* _HardlinkTracker.subscribe: `if self._failed.is_set(): raise ValueError`,
\* else sleep and test again
HlSubscribeCheckFailed(e) ==
  /\ hpc[e] = "chk"
  /\ IF htr[hgot[e].tracker].failed
     THEN /\ hres' = [hres EXCEPT ![e] = ValueError]
          /\ hpc' = [hpc EXCEPT ![e] = "failed"]
     ELSE /\ hres' = hres
          /\ hpc' = [hpc EXCEPT ![e] = "sub"]
  /\ UNCHANGED <<hn, hreg, htr, hgot>>
  /\ UNCHANGED outsideHl

\* _HardlinkTracker.subscribe: _ref_holder.pop() (IndexError passed over) and
\* `return self.first_copy_path`
HlSubscribeReturn(e) ==
  /\ hpc[e] = "pop"
  /\ LET t == hgot[e].tracker
         trackers == [htr EXCEPT ![t].refs = IF @ > 0 THEN @ - 1 ELSE 0] IN
     /\ htr' = trackers
     /\ hreg' = Reclaim(hreg, trackers)
     /\ hres' = [hres EXCEPT ![e] = Returned(htr[t].path)]
  /\ hpc' = [hpc EXCEPT ![e] = "done"]
  /\ UNCHANGED <<hn, hgot>>
  /\ UNCHANGED outsideHl

\* a hardlink group of 2..MaxNlink entries, none of them handled yet
InitHardlink ==
  /\ BootIdle
  /\ LatchIdle
  /\ FsmIdle
  /\ ClientIdle
  /\ DeltaIdle
  /\ BuildIdle
  /\ RegIdle
  /\ FileIdle
  /\ StoreIdle
  /\ BucketIdle
  /\ TrackerIdle
  /\ DbIdle
  /\ hn \in 2..MaxNlink
  /\ hreg = 0
  /\ htr = <<>>
  /\ hpc = [e \in Entries |-> IF e <= hn THEN "start" ELSE "off"]
  /\ hgot = [e \in Entries |-> NoGot]
  /\ hres = [e \in Entries |-> NoRes]

NextHardlink ==
  \E e \in Entries :
    \/ HlGetTracker(e)
    \/ HlWriterDone(e)
    \/ HlWriterOnFailed(e)
    \/ HlSubscribeCheckReady(e)
    \/ HlSubscribeCheckFailed(e)
    \/ HlSubscribeReturn(e)

SpecHardlink == InitHardlink /\ [][NextHardlink]_vars

\* C15: of the get_tracker calls made for the entries of one hardlink group,
\* exactly one returns is_writer = True, and every other call returns the
\* very same tracker with is_writer = False.
C15_OneWriter ==
  LET called == {e \in Entries : hgot[e] # NoGot} IN
  called # {} =>
    /\ Cardinality({e \in called : hgot[e].writer}) = 1
    /\ \A e1, e2 \in called : hgot[e1].tracker = hgot[e2].tracker

\* C16: a reader's subscribe() returns the first-copy path only once the
\* writer has called writer_done(); when the writer called writer_on_failed()
\* and never writer_done(), a subscribe() on that tracker that has ended has
\* raised its error and returned no path.
C16_SubscribeAfterWriterDone ==
  \A e \in Entries :
    (hgot[e] # NoGot /\ ~hgot[e].writer) =>
      LET tr == htr[hgot[e].tracker] IN
      /\ hres[e].path # 0 => (tr.ready /\ hres[e] = Returned(tr.path))
      /\ hpc[e] = "pop" => tr.ready
      /\ (tr.failed /\ ~tr.ready /\ hpc[e] \in {"done", "failed"})
           => hres[e] = ValueError

C16_Witness ==
  \E e \in Entries :
    /\ hgot[e] # NoGot /\ ~hgot[e].writer
    /\ htr[hgot[e].tracker].failed /\ ~htr[hgot[e].tracker].ready
    /\ hpc[e] = "failed" /\ hres[e] = ValueError

\* the readers whose subscribe() on tracker t has returned the path
Subscribed(t) ==
  {e \in Entries : /\ hgot[e] = [tracker |-> t, writer |-> FALSE]
                   /\ hres[e].path # 0}

\* C36: a tracker stays registered until exactly nlink - 1 readers have
\* completed subscribe(): before that get_tracker returns it with
\* is_writer = False, and only after the (nlink - 1)-th subscribe the tracker
\* is dropped, so that a later get_tracker creates a new one.
C36_RegisteredUntilAllSubscribed ==
  /\ [](\A t \in 1..Len(htr) :
         IF Cardinality(Subscribed(t)) < hn - 1 THEN hreg = t ELSE hreg # t)
  /\ [][\A e \in Entries :
         (hgot[e] = NoGot /\ hgot'[e] # NoGot) =>
           IF \E t \in 1..Len(htr) : Cardinality(Subscribed(t)) < hn - 1
           THEN /\ ~hgot'[e].writer
                /\ Cardinality(Subscribed(hgot'[e].tracker)) < hn - 1
                /\ htr' = htr
           ELSE hgot'[e].writer /\ Len(htr') = Len(htr) + 1]_vars

(***************************************************************************)
(* SpecDelta: DeltaGenerator._calculate_delta_offline on an old and a new  *)
(* manifest, one manifest line per step.                                   *)
(***************************************************************************)
\* RegularInfSet.add (skip_verify is True for every RegularDelta built here,
\* so no first copy is picked)
RegularInfSet_add(b, entry) ==
  [b EXCEPT !.alloc = TRUE, !.data = @ \cup {entry}]

\* RegularDelta.add_entry
add_entry(d, entry) ==
  IF d[entry.sha256hash].present
  THEN [d EXCEPT ![entry.sha256hash] = RegularInfSet_add(@, entry)]
  ELSE [d EXCEPT ![entry.sha256hash] = NewBucket]

\* RegularInfSet.is_empty
is_empty(b) == b.data = {}

\* RegularDelta.remove_entry (the hash is registered and the entry in its set)
remove_entry(d, entry) ==
  LET b == [d[entry.sha256hash] EXCEPT !.data = @ \ {entry}] IN
  IF is_empty(b) THEN [d EXCEPT ![entry.sha256hash] = NoBucket]
  ELSE [d EXCEPT ![entry.sha256hash] = b]

\* RegularDelta.__contains__: `_hash in self.data and item in self.data[_hash]`.
\* RegularInfSet defines __iter__ / __next__ and no __contains__, so `in` runs
\* the iterator: __next__ pops the entries of the set and yields the tuples
\* (is_last, entry), none of which equals the item; on a set whose data is
\* still None, data.pop() raises AttributeError.
contains(d, item) ==
  LET b == d[item.sha256hash] IN
  IF ~b.present THEN "False"
  ELSE IF ~b.alloc THEN "AttributeError"
  ELSE IF \E x \in b.data : <<is_empty([b EXCEPT !.data = @ \ {x}]), x>> = item
       THEN "True"
  ELSE "False"

\* what the iteration of `in` leaves of the RegularDelta: the set is popped
\* empty unless the item was met
after_contains(d, item) ==
  LET b == d[item.sha256hash] IN
  IF b.present /\ b.alloc /\ contains(d, item) = "False"
  THEN [d EXCEPT ![item.sha256hash].data = {}]
  ELSE d

\* RegularDelta.merge_entryset: RegularInfSet.update
merge_entryset(d, h, pathset) ==
  [d EXCEPT ![h].data = @ \cup pathset.data]

\* _calculate_delta_offline: one line of the old manifest
DeltaReadOld ==
  /\ dpc = "old"
  /\ IF di <= Len(dold)
     THEN /\ rmSet' = add_entry(rmSet, RegularInf("old", di, dold[di]))
          /\ di' = di + 1
          /\ dpc' = dpc
     ELSE /\ rmSet' = rmSet
          /\ di' = 1
          /\ dpc' = "new"
  /\ UNCHANGED <<dold, dnew, newSet, holdSet>>
  /\ UNCHANGED outsideDelta

\* _calculate_delta_offline: one line of the new manifest
DeltaReadNew ==
  /\ dpc = "new"
  /\ IF di <= Len(dnew)
     THEN LET entry == RegularInf("new", di, dnew[di])
              found == contains(rmSet, entry)
              rm == after_contains(rmSet, entry)
          IN CASE found = "AttributeError" ->
                    /\ dpc' = "AttributeError"
                    /\ UNCHANGED <<di, rmSet, newSet, holdSet>>
               [] found = "True" ->
                    /\ holdSet' = add_entry(holdSet, entry)
                    /\ rmSet' = remove_entry(rm, entry)
                    /\ di' = di + 1
                    /\ UNCHANGED <<dpc, newSet>>
               [] found = "False" ->
                    /\ newSet' = add_entry(newSet, entry)
                    /\ rmSet' = rm
                    /\ di' = di + 1
                    /\ UNCHANGED <<dpc, holdSet>>
     ELSE /\ dpc' = "opt"
          /\ UNCHANGED <<di, rmSet, newSet, holdSet>>
  /\ UNCHANGED <<dold, dnew>>
  /\ UNCHANGED outsideDelta

\* _calculate_delta_offline: "optimize the calculated deltas" and return
DeltaOptimize ==
  /\ dpc = "opt"
  /\ LET optimized == {h \in Hashes : newSet[h].present /\ holdSet[h].present}
     IN /\ holdSet' = [h \in Hashes |->
                         IF h \in optimized
                         THEN merge_entryset(holdSet, h, newSet[h])[h]
                         ELSE holdSet[h]]
        /\ newSet' = [h \in Hashes |->
                        IF h \in optimized THEN NoBucket ELSE newSet[h]]
  /\ dpc' = "done"
  /\ UNCHANGED <<dold, dnew, di, rmSet>>
  /\ UNCHANGED outsideDelta

InitDelta ==
  /\ BootIdle
  /\ LatchIdle
  /\ FsmIdle
  /\ ClientIdle
  /\ HlIdle
  /\ BuildIdle
  /\ RegIdle
  /\ FileIdle
  /\ StoreIdle
  /\ BucketIdle
  /\ TrackerIdle
  /\ DbIdle
  /\ dold \in Manifests
  /\ dnew \in Manifests
  /\ dpc = "old"
  /\ di = 1
  /\ rmSet = EmptyDelta
  /\ newSet = EmptyDelta
  /\ holdSet = EmptyDelta

NextDelta ==
  \/ DeltaReadOld
  \/ DeltaReadNew
  \/ DeltaOptimize

SpecDelta == InitDelta /\ [][NextDelta]_vars

\* the hashes that occur in a manifest, and its regular entries
HashesOf(manifest) == {manifest[i] : i \in 1..Len(manifest)}
EntriesOf(m, manifest) ==
  {RegularInf(m, i, manifest[i]) : i \in 1..Len(manifest)}

\* C17: in the delta returned, every hash of the new manifest is a key of
\* hold_set if it also occurs in the old manifest and a key of new_set
\* otherwise, and no hash is a key of both new_set and hold_set.
C17_ClassifiedByHash ==
  dpc = "done" =>
    \A h \in HashesOf(dnew) :
      /\ h \in HashesOf(dold) => holdSet[h].present
      /\ h \notin HashesOf(dold) => newSet[h].present
      /\ ~(newSet[h].present /\ holdSet[h].present)

\* the entry is held by the bucket of its own hash in the RegularDelta d
InBucket(d, entry) ==
  d[entry.sha256hash].present /\ entry \in d[entry.sha256hash].data

\* C18: the delta returned loses and duplicates no entry: every regular entry
\* of the new manifest is held by exactly one of new_set and hold_set, in the
\* bucket of its own hash, and every entry of the old manifest whose hash no
\* new entry carries is held by obsolete_set.
C18_NoEntryLost ==
  dpc = "done" =>
    /\ \A entry \in EntriesOf("new", dnew) :
         /\ InBucket(newSet, entry) \/ InBucket(holdSet, entry)
         /\ ~(InBucket(newSet, entry) /\ InBucket(holdSet, entry))
    /\ \A entry \in EntriesOf("old", dold) :
         entry.sha256hash \notin HashesOf(dnew) => InBucket(rmSet, entry)

\* C19: in the delta returned, the keys of obsolete_set are exactly the hashes
\* of the old manifest that do not occur in the new one, no hash is a key of
\* obsolete_set and of new_set or hold_set as well, and no bucket present in
\* any of the three is empty.
C19_ObsoleteDisjointNonEmpty ==
  dpc = "done" =>
    \A h \in Hashes :
      /\ rmSet[h].present <=> (h \in HashesOf(dold) /\ h \notin HashesOf(dnew))
      /\ ~(rmSet[h].present /\ (newSet[h].present \/ holdSet[h].present))
      /\ \A d \in {rmSet, newSet, holdSet} : d[h].present => ~is_empty(d[h])

\* ---------------------------------------------------------------------------
\* Fetching the files of a build.
\*
\* RebuildMode._process_regulars submits one _apply_delta task per bucket of
\* the delta; OTAFilesDownloader.download_ota_files maps _download_file over
\* the entries of files_list with RetryTaskMap, one task per entry and pass.

Tasks == 1..Len(files_list)
Finished(i) == tpc[i] \in {"done", "failed"}

\* _apply_delta, line 194: the RegularInfSet of _common.py has no attribute
\* skip_cleanup (nor iter_entries, nor entry_to_be_collected), so the task
\* raises AttributeError before it reaches the downloader
ApplyDelta(h) ==
  /\ bmode = "rebuild"
  /\ apc[h] = "submitted"
  /\ apc' = [apc EXCEPT ![h] = "AttributeError"]
  /\ UNCHANGED <<bmode, files_list, tpc, download_dir, invoked, idx, mapState>>
  /\ UNCHANGED outsideBuild

\* _download_file, lines 86-88 and the call of lines 95-103: return when the
\* file of the hash is there, call the downloader otherwise
DownloadFileCheck(i) ==
  /\ bmode = "download"
  /\ mapState = "running"
  /\ tpc[i] = "registered"
  /\ IF files_list[i] \in download_dir
       THEN /\ tpc' = [tpc EXCEPT ![i] = "done"]
            /\ UNCHANGED invoked
       ELSE /\ tpc' = [tpc EXCEPT ![i] = "downloading"]
            /\ invoked' = [invoked EXCEPT ![files_list[i]] = @ + 1]
  /\ UNCHANGED <<bmode, files_list, download_dir, idx, mapState, apc>>
  /\ UNCHANGED outsideBuild

\* Downloader.download returns: the file is in the download folder
DownloadFileDone(i) ==
  /\ bmode = "download"
  /\ tpc[i] = "downloading"
  /\ download_dir' = download_dir \cup {files_list[i]}
  /\ tpc' = [tpc EXCEPT ![i] = "done"]
  /\ UNCHANGED <<bmode, files_list, invoked, idx, mapState, apc>>
  /\ UNCHANGED outsideBuild

\* Downloader.download raises: _task_wrapper returns the exception and
\* _done_callback records the entry as failed
DownloadFileRaise(i) ==
  /\ bmode = "download"
  /\ tpc[i] = "downloading"
  /\ tpc' = [tpc EXCEPT ![i] = "failed"]
  /\ UNCHANGED <<bmode, files_list, download_dir, invoked, idx, mapState, apc>>
  /\ UNCHANGED outsideBuild

\* RetryTaskMap.map: every task of the pass is finished and some failed; the
\* next pass registers the entries of _iter again
MapRetry ==
  /\ bmode = "download"
  /\ mapState = "running"
  /\ \A i \in Tasks : Finished(i)
  /\ \E i \in Tasks : tpc[i] = "failed"
  /\ idx + 1 < MaxRetry
  /\ idx' = idx + 1
  /\ tpc' = [i \in Tasks |-> "registered"]
  /\ UNCHANGED <<bmode, files_list, download_dir, invoked, mapState, apc>>
  /\ UNCHANGED outsideBuild

\* RetryTaskMap.map returns: no task of the pass failed, or the last pass is
\* over
MapReturn ==
  /\ bmode = "download"
  /\ mapState = "running"
  /\ \A i \in Tasks : Finished(i)
  /\ (\A i \in Tasks : tpc[i] = "done") \/ idx + 1 = MaxRetry
  /\ mapState' = "returned"
  /\ UNCHANGED <<bmode, files_list, tpc, download_dir, invoked, idx, apc>>
  /\ UNCHANGED outsideBuild

InitBuild ==
  /\ BootIdle
  /\ LatchIdle
  /\ FsmIdle
  /\ ClientIdle
  /\ HlIdle
  /\ DeltaIdle
  /\ RegIdle
  /\ FileIdle
  /\ StoreIdle
  /\ BucketIdle
  /\ TrackerIdle
  /\ DbIdle
  /\ bmode \in {"rebuild", "download"}
  /\ files_list \in Manifests
  /\ tpc = [i \in Tasks |-> "registered"]
  /\ download_dir \in SUBSET Hashes
  /\ invoked = [h \in Hashes |-> 0]
  /\ idx = 0
  /\ mapState = "running"
  /\ apc = [h \in Hashes |->
             IF h \in HashesOf(files_list) THEN "submitted" ELSE "none"]

NextBuild ==
  \/ \E h \in Hashes : ApplyDelta(h)
  \/ \E i \in Tasks : DownloadFileCheck(i)
  \/ \E i \in Tasks : DownloadFileDone(i)
  \/ \E i \in Tasks : DownloadFileRaise(i)
  \/ MapRetry
  \/ MapReturn

SpecBuild == InitBuild /\ [][NextBuild]_vars

\* every file of files_list has been fetched when the map returned
BuildSucceeded ==
  /\ mapState = "returned"
  /\ HashesOf(files_list) \subseteq download_dir

\* C20: in a build that succeeded, the downloader has been invoked at most
\* once for each content hash, however many entries carry the hash and
\* however the tasks interleaved.
C20_OneDownloadPerHash ==
  BuildSucceeded => \A h \in Hashes : invoked[h] <= 1

\* C34: when an entry still fails after the last of the max_retry passes,
\* RetryTaskMap.map does not finish normally: a map that returned has no
\* failed entry left.
C34_ExhaustedRetriesRaise ==
  (bmode = "download" /\ mapState = "returned")
    => \A i \in Tasks : tpc[i] # "failed"

\* C35: a retry pass re-submits exactly the entries that failed in the pass
\* before: an entry that succeeded is never submitted again, and every entry
\* that failed is submitted again while fewer than max_retry passes have run.
C35_RetryOnlyFailed ==
  /\ [][\A i \in Tasks : tpc[i] = "done" => tpc'[i] = "done"]_vars
  /\ [][idx' = idx + 1 =>
         \A i \in Tasks : tpc[i] = "failed" => tpc'[i] = "registered"]_vars
  /\ [](( /\ bmode = "download"
          /\ mapState = "running"
          /\ \A i \in Tasks : Finished(i)
          /\ \E i \in Tasks : tpc[i] = "failed"
          /\ idx + 1 < MaxRetry ) => ENABLED MapRetry)

\* ---------------------------------------------------------------------------
\* RebuildMode.create_standby_bank and the regulars phase.
\*
\* _process_regulars dispatches one task per bucket under the collector's
\* semaphore; each task's future is handed to CreateRegularStatsCollector's
\* callback, the collector thread moves the queued stats into the statistics
\* store, and wait() ends the phase. Every bucket holds one entry here.

Buckets == 1..rnb
Ops == {"copy", "link", "download"}

\* what callback() puts on the queue for one st of sts: `put_nowait(sts)`,
\* the list itself
QueuedFor(sts) == [kind |-> "list", sts |-> sts]

\* collector(), the body of `with acquire_staging_storage()`: the counters
\* after the items of _staging from position i on, and whether `st.op` raised
RECURSIVE Collect(_, _, _)
Collect(slot, staging, i) ==
  IF i > Len(staging) THEN [slot |-> slot, raised |-> FALSE]
  ELSE IF staging[i].kind = "list" THEN [slot |-> slot, raised |-> TRUE]
  ELSE LET f == staging[i].op
           next == IF f = "copy"
                     THEN [slot EXCEPT !.files_processed_copy = @ + 1]
                   ELSE IF f = "link"
                     THEN [slot EXCEPT !.files_processed_link = @ + 1]
                   ELSE IF f = "download"
                     THEN [slot EXCEPT !.files_processed_download = @ + 1]
                   ELSE slot
       IN Collect(next, staging, i + 1)

\* create_standby_bank calls _prepare_meta_files first: `for fname, method in
\* self.META_FILES` iterates the keys of a dict and unpacks a file name into
\* two names, which raises ValueError before anything is fetched
PrepareMetaFiles ==
  /\ rpc = "bank_meta"
  /\ rpc' = "raised"
  /\ rerr' = "ValueError"
  /\ UNCHANGED <<phasesDone, hasRm, rnb, rk, rse, rtask, rque, rstaging, cpc,
                 abort_event, finished_event, last_error, rslot>>
  /\ UNCHANGED outsideReg

\* _process_regulars up to the dispatch loop: with a bucket in _rm,
\* `_pathset.collect_entries_to_be_recycled` is no attribute of RegularInfSet
\* and raises AttributeError in the calling thread; otherwise the collector
\* thread is submitted
ProcessRegularsStart ==
  /\ rpc = "start"
  /\ IF hasRm
       THEN /\ rpc' = "exiting"
            /\ rerr' = "AttributeError"
            /\ UNCHANGED <<rk, cpc>>
       ELSE /\ rpc' = "dispatch"
            /\ rk' = 1
            /\ cpc' = "top"
            /\ UNCHANGED rerr
  /\ UNCHANGED <<phasesDone, hasRm, rnb, rse, rtask, rque, rstaging,
                 abort_event, finished_event, last_error, rslot>>
  /\ UNCHANGED outsideReg

AcquireSe_NoBlock == TRUE

\* CreateRegularStatsCollector.acquire_se: se.acquire() returns only when a
\* permit is free
AcquireSe == rse > 0

\* the dispatch loop: acquire_se() blocks until a permit is free, then the
\* task of the bucket is submitted
Dispatch ==
  /\ rpc = "dispatch"
  /\ rk <= rnb
  /\ AcquireSe
  /\ rse' = rse - 1
  /\ rtask' = [rtask EXCEPT ![rk] = "running"]
  /\ rk' = rk + 1
  /\ UNCHANGED <<rpc, rerr, phasesDone, hasRm, rnb, rque, rstaging, cpc,
                 abort_event, finished_event, last_error, rslot>>
  /\ UNCHANGED outsideReg

\* every bucket is dispatched: _collector.wait() is called
DispatchDone ==
  /\ rpc = "dispatch"
  /\ rk > rnb
  /\ rpc' = "wait"
  /\ UNCHANGED <<rerr, phasesDone, hasRm, rnb, rk, rse, rtask, rque, rstaging,
                 cpc, abort_event, finished_event, last_error, rslot>>
  /\ UNCHANGED outsideReg

\* wait(): return when finished_event is set, raise last_error when
\* abort_event is set, sleep otherwise
Wait ==
  /\ rpc = "wait"
  /\ finished_event \/ abort_event
  /\ rpc' = "exiting"
  /\ rerr' = IF finished_event THEN NONE ELSE last_error
  /\ UNCHANGED <<phasesDone, hasRm, rnb, rk, rse, rtask, rque, rstaging, cpc,
                 abort_event, finished_event, last_error, rslot>>
  /\ UNCHANGED outsideReg

\* leaving `with ThreadPoolExecutor() as pool`: shutdown(wait=True) returns
\* when every submitted task, the collector included, is over
PoolExit_NoWait == TRUE

PoolExit ==
  /\ \A b \in Buckets : rtask[b] # "running"
  /\ cpc \notin {"top", "flush"}

ProcessRegularsEnd ==
  /\ rpc = "exiting"
  /\ PoolExit
  /\ rpc' = IF rerr = NONE THEN "returned" ELSE "raised"
  /\ UNCHANGED <<rerr, phasesDone, hasRm, rnb, rk, rse, rtask, rque, rstaging,
                 cpc, abort_event, finished_event, last_error, rslot>>
  /\ UNCHANGED outsideReg

\* a task returns its stats: callback() queues them and releases a permit
TaskReturn(b) ==
  \E suffix \in Ops :
    LET sts == <<[op |-> suffix]>>
    IN /\ rtask[b] = "running"
       /\ rtask' = [rtask EXCEPT ![b] = "returned"]
       /\ rque' = rque \o [i \in 1..Len(sts) |-> QueuedFor(sts)]
       /\ rse' = rse + 1
       /\ UNCHANGED <<rpc, rerr, phasesDone, hasRm, rnb, rk, rstaging, cpc,
                      abort_event, finished_event, last_error, rslot>>
       /\ UNCHANGED outsideReg

\* a task raises: callback() keeps the error and sets abort_event; the permit
\* is not released
TaskRaise(b) ==
  /\ rtask[b] = "running"
  /\ rtask' = [rtask EXCEPT ![b] = "raised"]
  /\ last_error' = "AttributeError"
  /\ abort_event' = TRUE
  /\ UNCHANGED <<rpc, rerr, phasesDone, hasRm, rnb, rk, rse, rque, rstaging,
                 cpc, finished_event, rslot>>
  /\ UNCHANGED outsideReg

\* collector(), the head of the loop: leave on abort_event; take one item from
\* the queue (or sleep) while files are missing; set finished_event and leave
\* when total_regular_num files are processed
CollectorTop ==
  /\ cpc = "top"
  /\ IF abort_event
       THEN /\ cpc' = "exited"
            /\ UNCHANGED <<rque, rstaging, finished_event>>
       ELSE IF rslot.regular_files_processed < rnb
         THEN /\ cpc' = "flush"
              /\ IF rque # <<>>
                   THEN /\ rstaging' = Append(rstaging, Head(rque))
                        /\ rque' = Tail(rque)
                   ELSE UNCHANGED <<rque, rstaging>>
              /\ UNCHANGED finished_event
         ELSE /\ cpc' = "finished"
              /\ finished_event' = TRUE
              /\ UNCHANGED <<rque, rstaging>>
  /\ UNCHANGED <<rpc, rerr, phasesDone, hasRm, rnb, rk, rse, rtask,
                 abort_event, last_error, rslot>>
  /\ UNCHANGED outsideReg

\* collector(), the end of the loop: when _staging holds something and the
\* interval is over, add it to a copy of the store; acquire_staging_storage
\* writes the copy back in its finally clause, also when the body raised
CollectorFlush ==
  \E elapsed \in BOOLEAN :
    /\ cpc = "flush"
    /\ IF rstaging # <<>> /\ elapsed
         THEN LET counted == [rslot EXCEPT !.regular_files_processed =
                                              @ + Len(rstaging)]
                  res == Collect(counted, rstaging, 1)
              IN /\ rslot' = res.slot
                 /\ IF res.raised
                      THEN /\ cpc' = "crashed"
                           /\ UNCHANGED rstaging
                      ELSE /\ cpc' = "top"
                           /\ rstaging' = <<>>
         ELSE /\ cpc' = "top"
              /\ UNCHANGED <<rstaging, rslot>>
    /\ UNCHANGED <<rpc, rerr, phasesDone, hasRm, rnb, rk, rse, rtask, rque,
                   abort_event, finished_event, last_error>>
    /\ UNCHANGED outsideReg

InitRegulars ==
  /\ BootIdle
  /\ LatchIdle
  /\ FsmIdle
  /\ ClientIdle
  /\ HlIdle
  /\ DeltaIdle
  /\ BuildIdle
  /\ FileIdle
  /\ StoreIdle
  /\ BucketIdle
  /\ TrackerIdle
  /\ DbIdle
  /\ rpc \in {"bank_meta", "start"}
  /\ rerr = NONE
  /\ phasesDone = <<>>
  /\ hasRm \in BOOLEAN
  /\ rnb \in 0..MaxBuckets
  /\ rk = 0
  /\ rse = MaxConcurrentTasks
  /\ rtask = [b \in 1..rnb |-> "none"]
  /\ rque = <<>>
  /\ rstaging = <<>>
  /\ cpc = "none"
  /\ abort_event = FALSE
  /\ finished_event = FALSE
  /\ last_error = NONE
  /\ rslot = EmptySlot

NextRegulars ==
  \/ PrepareMetaFiles
  \/ ProcessRegularsStart
  \/ Dispatch
  \/ DispatchDone
  \/ Wait
  \/ ProcessRegularsEnd
  \/ \E b \in Buckets : TaskReturn(b)
  \/ \E b \in Buckets : TaskRaise(b)
  \/ CollectorTop
  \/ CollectorFlush

SpecRegulars == InitRegulars /\ [][NextRegulars]_vars

\* the five phases of create_standby_bank, in the order of its calls
PHASES == <<"meta", "dirs", "regulars", "symlinks", "persistents">>

\* a worker of the regulars phase (a task or the collector) is still running
WorkerRunning ==
  \/ \E b \in Buckets : rtask[b] = "running"
  \/ cpc \in {"top", "flush"}

C22_StatsAccounted ==
  (/\ rpc \in {"dispatch", "wait", "exiting", "returned"}
   /\ \A b \in Buckets : rtask[b] = "returned"
   /\ cpc \in {"finished", "crashed"})
  => /\ rslot.regular_files_processed = rnb
     /\ rslot.files_processed_copy + rslot.files_processed_link
          + rslot.files_processed_download = rslot.regular_files_processed

\* the dispatch loop waits for a permit that no task is left to release
BlockedForever ==
  /\ rpc = "dispatch"
  /\ rk <= rnb
  /\ rse = 0
  /\ \A b \in Buckets : rtask[b] # "running"

\* C23: when a task of the regulars phase raises, the abort flag is set, no
\* further task is dispatched once it is set, and the calling thread is never
\* left waiting for a permit that cannot come.
C23_AbortEndsPhase ==
  /\ []((\E b \in Buckets : rtask[b] = "raised") => abort_event)
  /\ [][abort_event => rk' = rk]_vars
  /\ [](~BlockedForever)

\* ---------------------------------------------------------------------------
\* Rewriting a slot state file: write_to_file / write_str_to_file(_sync) and
\* read_from_file. Both writers open the file itself for writing, which
\* empties it, and then write the new text into it; the process may die
\* between any two of these steps.

Whitespace == {" ", "\n"}

\* str.strip()
RECURSIVE LStrip(_)
LStrip(t) ==
  IF t = <<>> THEN t
  ELSE IF Head(t) \in Whitespace THEN LStrip(Tail(t)) ELSE t

RECURSIVE RStrip(_)
RStrip(t) ==
  IF t = <<>> THEN t
  ELSE IF t[Len(t)] \in Whitespace THEN RStrip(SubSeq(t, 1, Len(t) - 1)) ELSE t

Strip(t) == RStrip(LStrip(t))

\* path.write_text / open(path, "w"): the file is opened and truncated
FileOpen ==
  /\ wpc = "call"
  /\ ~crashed
  /\ fdisk' = <<>>
  /\ wpc' = "open"
  /\ UNCHANGED <<fold, fnew, wfn, crashed, fread>>
  /\ UNCHANGED outsideFile

\* f.write(input): the text reaches the file, all of it or a part at a time
FileWrite ==
  \E n \in 1..MaxStrLen :
    /\ wpc = "open"
    /\ ~crashed
    /\ Len(fdisk) + n <= Len(fnew)
    /\ fdisk' = SubSeq(fnew, 1, Len(fdisk) + n)
    /\ wpc' = IF Len(fdisk) + n = Len(fnew) THEN "written" ELSE "open"
    /\ UNCHANGED <<fold, fnew, wfn, crashed, fread>>
    /\ UNCHANGED outsideFile

\* the file is closed (write_str_to_file_sync: after flush and fsync)
FileClose ==
  /\ wpc = "written"
  /\ ~crashed
  /\ wpc' = "done"
  /\ UNCHANGED <<fdisk, fold, fnew, wfn, crashed, fread>>
  /\ UNCHANGED outsideFile

\* the process dies
Crash ==
  /\ wpc \in {"call", "open", "written", "done"}
  /\ ~crashed
  /\ crashed' = TRUE
  /\ UNCHANGED <<fdisk, fold, fnew, wfn, wpc, fread>>
  /\ UNCHANGED outsideFile

\* read_from_file after the restart
ReadFromFile ==
  /\ crashed
  /\ ~fread.done
  /\ fread' = [done |-> TRUE, text |-> Strip(fdisk)]
  /\ UNCHANGED <<fdisk, fold, fnew, wfn, wpc, crashed>>
  /\ UNCHANGED outsideFile

InitFile ==
  /\ BootIdle
  /\ LatchIdle
  /\ FsmIdle
  /\ ClientIdle
  /\ HlIdle
  /\ DeltaIdle
  /\ BuildIdle
  /\ RegIdle
  /\ StoreIdle
  /\ BucketIdle
  /\ TrackerIdle
  /\ DbIdle
  /\ fold \in Strings
  /\ fnew \in Strings
  /\ fdisk = fold
  /\ wfn \in {"write_to_file", "write_str_to_file_sync"}
  /\ wpc = "call"
  /\ crashed = FALSE
  /\ fread = NotRead

NextFile ==
  \/ FileOpen
  \/ FileWrite
  \/ FileClose
  \/ Crash
  \/ ReadFromFile

SpecFile == InitFile /\ [][NextFile]_vars

\* C24: a slot state file is rewritten atomically: whenever the process died,
\* a later read of the file returns the complete old value or the complete
\* new value, never an empty or a partial one.
C24_AtomicRewrite ==
  fread.done => fread.text \in {fold, fnew}

\* the latches _S1, _S2 and _END of the FSM handed to thread t are unset
NotAdvanced(t) ==
  /\ ~latch[FsmOf(t)]["_S1"]
  /\ ~latch[FsmOf(t)]["_S2"]
  /\ ~latch[FsmOf(t)]["_END"]

\* the orchestration of call t is through: S1, S2 and END of its FSM are set
\* and the client has entered post_update
OrchestrationDone(t) ==
  /\ latch[FsmOf(t)]["_S1"]
  /\ latch[FsmOf(t)]["_S2"]
  /\ latch[FsmOf(t)]["_END"]
  /\ postInvoked[t]

\* the local update of call t raised an error
LocalUpdateRaised(t) == err[t] # NoErr

\* the positions of _update between the locked block and the return of
\* leave_update, the waits on the FSM among them
InUpdate == {"locked", "pre", "meta", "dirs", "regulars", "post", "endwait"}

\* C38: under fair scheduling the orchestration does not deadlock: with the
\* service doing start, START -> S0 and S2 -> END, an update() that raises no
\* error sees S1, S2 and END set and reaches post_update, and no participant
\* stays for ever in a wait_on or a proceed.
C38_NoDeadlock ==
  /\ \A t \in CThreads : []<>(pc[t] \notin InUpdate)
  /\ [](\A t \in CThreads :
          (call[t].kind = "update" /\ pc[t] \notin InUpdate /\ preDone[t]
           /\ ~LocalUpdateRaised(t))
          => (OrchestrationDone(t) /\ svc[FsmOf(t)] = "done"))

C38_Witness ==
  \E t \in CThreads :
    OrchestrationDone(t) /\ ~LocalUpdateRaised(t) /\ svc[FsmOf(t)] = "done"

\* C37: the set latches of the FSM form a prefix of START, S0, S1, S2, END:
\* a latch is set only when the latch of the preceding state is set, and a
\* latch once set is never cleared.
C37_LatchesFormPrefix ==
  /\ [](\A i \in 2..Len(STATE_LIST) :
         latch["f1"][STATE_LIST[i]] => latch["f1"][STATE_LIST[i - 1]])
  /\ [][\A s \in States : latch["f1"][s] => latch'["f1"][s]]_vars

C37_Witness ==
  /\ latch["f1"] = [s \in States |-> s \in {"_START", "_S0", "_S1"}]
  /\ \E t \in FThreads : fcall[t].expect = "_S0" /\ fdidSet[t]

\* C25: an update() call rejected as busy never advances the FSM it was given:
\* once it has returned RECOVERABLE from the busy check, the latches _S1, _S2
\* and _END of that FSM are unset and stay unset for as long as the FSM is the
\* one of that call.
C25_RejectedCallKeepsFsm ==
  /\ [](\A t \in CThreads : BusyRejected(t) => NotAdvanced(t))
  /\ [][\A t \in CThreads :
          (BusyRejected(t) /\ ncalls'[t] = ncalls[t])
          => (~latch'[FsmOf(t)]["_S1"] /\ ~latch'[FsmOf(t)]["_S2"]
              /\ ~latch'[FsmOf(t)]["_END"])]_vars

\* a call was rejected as busy and the service has taken its FSM to _S0
C25_Witness ==
  \E t \in CThreads :
    /\ BusyRejected(t)
    /\ latch[FsmOf(t)]["_S0"]
    /\ \E u \in CThreads \ {t} : InFlightUpdate(u)


(***************************************************************************)
(* The statistics store (update_stats.py: OtaClientStatistics)             *)
(***************************************************************************)

\* set(): `with self._lock:` is entered
SetAcquire(t) ==
  /\ spc[t] = "ready"
  /\ si[t] < Len(sop[t])
  /\ CurOp(t).kind = "set"
  /\ slock = NONE
  /\ slock' = t
  /\ spc' = [spc EXCEPT ![t] = "locked"]
  /\ UNCHANGED <<sop, si, sslot, sstaging, snap>>
  /\ UNCHANGED outsideStore

\* set(): setattr(self._slot, attr, value), then the lock is released
SetStore(t) ==
  /\ spc[t] = "locked"
  /\ sslot' = [sslot EXCEPT ![CurOp(t).attr] = CurOp(t).value]
  /\ slock' = NONE
  /\ spc' = [spc EXCEPT ![t] = "ready"]
  /\ si' = [si EXCEPT ![t] = @ + 1]
  /\ UNCHANGED <<sop, sstaging, snap>>
  /\ UNCHANGED outsideStore

\* clear(): self._slot = _OtaClientStatisticsStorage(); the lock is not taken
Clear(t) ==
  /\ spc[t] = "ready"
  /\ si[t] < Len(sop[t])
  /\ CurOp(t).kind = "clear"
  /\ sslot' = EmptyStorage
  /\ spc' = [spc EXCEPT ![t] = "ready"]
  /\ si' = [si EXCEPT ![t] = @ + 1]
  /\ UNCHANGED <<sop, slock, sstaging, snap>>
  /\ UNCHANGED outsideStore

\* acquire_staging_storage(): the lock is acquired, the slot is copied and
\* the copy is handed to the body
StagingEnter(t) ==
  /\ spc[t] = "ready"
  /\ si[t] < Len(sop[t])
  /\ CurOp(t).kind = "staging"
  /\ slock = NONE
  /\ slock' = t
  /\ sstaging' = [sstaging EXCEPT ![t] = sslot]
  /\ spc' = [spc EXCEPT ![t] = "staged"]
  /\ UNCHANGED <<sop, si, sslot, snap>>
  /\ UNCHANGED outsideStore

\* the body of the block: staging_storage.regular_files_processed += 1
StagingFirst(t) ==
  /\ spc[t] = "staged"
  /\ sstaging' =
       [sstaging EXCEPT ![t].regular_files_processed = @ + 1]
  /\ spc' = [spc EXCEPT ![t] = "partial"]
  /\ UNCHANGED <<sop, si, slock, sslot, snap>>
  /\ UNCHANGED outsideStore

\* the body of the block: staging_storage["files_processed_copy"] += 1
StagingSecond(t) ==
  /\ spc[t] = "partial"
  /\ ~CurOp(t).raises
  /\ sstaging' = [sstaging EXCEPT ![t].files_processed_copy = @ + 1]
  /\ spc' = [spc EXCEPT ![t] = "body_done"]
  /\ UNCHANGED <<sop, si, slock, sslot, snap>>
  /\ UNCHANGED outsideStore

\* the body of the block raises after its first addition
StagingRaise(t) ==
  /\ spc[t] = "partial"
  /\ CurOp(t).raises
  /\ spc' = [spc EXCEPT ![t] = "body_raised"]
  /\ UNCHANGED <<sop, si, slock, sslot, sstaging, snap>>
  /\ UNCHANGED outsideStore

\* acquire_staging_storage(), finally: self._slot = staging_slot and the lock
\* is released, whether the body returned or raised
StagingExit(t) ==
  /\ spc[t] \in {"body_done", "body_raised"}
  /\ sslot' = sstaging[t]
  /\ slock' = NONE
  /\ spc' = [spc EXCEPT ![t] = "ready"]
  /\ si' = [si EXCEPT ![t] = @ + 1]
  /\ UNCHANGED <<sop, sstaging, snap>>
  /\ UNCHANGED outsideStore

\* get_snapshot(): self._slot.copy(); the lock is not taken
GetSnapshot ==
  /\ snap' = sslot
  /\ UNCHANGED <<sop, si, spc, slock, sslot, sstaging>>
  /\ UNCHANGED outsideStore

InitStore ==
  /\ BootIdle
  /\ LatchIdle
  /\ FsmIdle
  /\ ClientIdle
  /\ HlIdle
  /\ DeltaIdle
  /\ BuildIdle
  /\ RegIdle
  /\ FileIdle
  /\ BucketIdle
  /\ TrackerIdle
  /\ DbIdle
  /\ sop \in [StoreThreads -> StorePrograms]
  /\ si = [t \in StoreThreads |-> 0]
  /\ spc = [t \in StoreThreads |-> "ready"]
  /\ slock = NONE
  /\ sslot = EmptyStorage
  /\ sstaging = [t \in StoreThreads |-> EmptyStorage]
  /\ snap = EmptyStorage

NextStore ==
  \/ \E t \in StoreThreads : SetAcquire(t)
  \/ \E t \in StoreThreads : SetStore(t)
  \/ \E t \in StoreThreads : Clear(t)
  \/ \E t \in StoreThreads : StagingEnter(t)
  \/ \E t \in StoreThreads : StagingFirst(t)
  \/ \E t \in StoreThreads : StagingSecond(t)
  \/ \E t \in StoreThreads : StagingRaise(t)
  \/ \E t \in StoreThreads : StagingExit(t)
  \/ GetSnapshot

SpecStore == InitStore /\ [][NextStore]_vars

\* what one operation makes of a store when nothing runs beside it and a
\* staging block whose body raises commits nothing
Apply(o, st) ==
  CASE o.kind = "set" -> [st EXCEPT ![o.attr] = o.value]
    [] o.kind = "clear" -> EmptyStorage
    [] o.kind = "staging" /\ ~o.raises ->
         [st EXCEPT !.regular_files_processed = @ + 1,
                    !.files_processed_copy = @ + 1]
    [] OTHER -> st

\* the stores that the first n[t] calls of every thread t give in some serial
\* order that keeps the order of the calls of each thread
RECURSIVE SerialOutcomes(_)
SerialOutcomes(n) ==
  IF \A t \in StoreThreads : n[t] = 0 THEN {EmptyStorage}
  ELSE UNION {{Apply(sop[t][n[t]], st) :
                 st \in SerialOutcomes([n EXCEPT ![t] = @ - 1])} :
              t \in {u \in StoreThreads : n[u] > 0}}

\* every thread has ended its calls
StoreDone == \A t \in StoreThreads : si[t] = Len(sop[t])

\* C27: when every operation has ended the store is the result of the
\* operations in some serial order, where a staging block that raised
\* commits nothing; and a snapshot is always the result of some of the
\* operations in some serial order, never a partly applied staging block.
C27_AtomicStore ==
  /\ StoreDone => sslot \in SerialOutcomes([t \in StoreThreads |-> Len(sop[t])])
  /\ snap \in UNION {SerialOutcomes(n) :
                       n \in {m \in [StoreThreads -> 0..2] :
                                \A t \in StoreThreads : m[t] <= Len(sop[t])}}

(***************************************************************************)
(* C26: statuses that startup finalization leaves alone                    *)
(***************************************************************************)

PRESERVED == {"INITIALIZED", "FAILURE", "ROLLBACK_FAILURE"}

\* C26: when the controller starts and the status file of the booted slot
\* holds INITIALIZED, FAILURE or ROLLBACK_FAILURE, the file holds the same
\* status after the start and that status is the live one, whatever the
\* slot_in_use file holds and whichever slot is booted.
C26_OtherStatusesPreserved ==
  /\ [][(ctrl = "off" /\ ctrl' = "up" /\ statusFile[active] \in PRESERVED)
          => /\ statusFile'[active] = statusFile[active]
             /\ otaStatus' = statusFile[active]
             /\ slotInUseFile' = slotInUseFile]_vars
  /\ []((ctrl = "up" /\ loaded \in PRESERVED) => bootedStatus = loaded)

\* a controller started on slot B over a persisted FAILURE while slot_in_use
\* names the other slot
C26_Witness ==
  /\ ctrl = "up"
  /\ loaded = "FAILURE"
  /\ bootedStatus = "FAILURE"
  /\ statusFile[active] = "FAILURE"
  /\ slotInUseFile[active] # active

(***************************************************************************)
(* C28: status() is read-only                                              *)
(***************************************************************************)

\* C28: a status() call changes nothing of the client: the OTA status, the
\* failure type and reason, the update phase and every field of the
\* statistics are after the call what they were before it, in every state,
\* UPDATING included.
C28_StatusIsReadOnly ==
  [][Status => UNCHANGED <<otaStatus, failureType, failureReason, updatePhase,
                           stats>>]_vars

(***************************************************************************)
(* C29: an accepted update() resets the failure record                     *)
(***************************************************************************)

\* C29: the step in which an update() call passes its precondition check
\* sets the live status to UPDATING, the phase to INITIAL, failure_type to
\* NO_FAILURE, failure_reason to empty and clears the statistics; and while
\* an update is in flight and has not failed, status() reports NO_FAILURE
\* and an empty reason, whatever was recorded before the call.
C29_AcceptedUpdateClearsFailure ==
  /\ [][\A t \in CThreads :
          (pc[t] = "idle" /\ pc'[t] = "locked")
          => /\ otaStatus' = "UPDATING"
             /\ updatePhase' = "INITIAL"
             /\ failureType' = "NO_FAILURE"
             /\ failureReason' = ""
             /\ stats' = EmptyStats]_vars
  /\ [](\A t \in CThreads :
          (InFlightUpdate(t) /\ pc[t] # "raised")
          => /\ StatusReport.failure_type = "NO_FAILURE"
             /\ StatusReport.failure_reason = "")

(***************************************************************************)
(* C30: a timeout in proceed                                               *)
(***************************************************************************)

\* _BaseOtaClient.update: the failure type its except clauses give to an
\* exception that leaves _update
FailureTypeOf(exception) ==
  CASE exception = "OtaErrorBusy" -> "RECOVERABLE"
    [] exception \in {"JSONDecodeError", "OtaErrorRecoverable"} -> "RECOVERABLE"
    [] OTHER -> "UNRECOVERABLE"

InFlight == {b \in Buckets : rtask[b] = "running"}

\* C31: at every moment at most MAX_CONCURRENT_TASKS tasks are submitted and
\* not completed; a task is submitted only in a step that takes a free
\* permit, and a permit is given back only in a step in which a task that
\* was running completes.
C31_InFlightCapped ==
  /\ [](Cardinality(InFlight) <= MaxConcurrentTasks)
  /\ [][\A b \in Buckets :
          (rtask[b] # "running" /\ rtask'[b] = "running")
          => (rse > 0 /\ rse' = rse - 1)]_vars
  /\ [][rse' > rse
        => \E b \in Buckets : rtask[b] = "running" /\ rtask'[b] # "running"]_vars

\* every permit is taken by a running task while the dispatcher has a
\* further bucket to submit
C31_Witness ==
  /\ rpc = "dispatch"
  /\ rk <= rnb
  /\ rse = 0
  /\ Cardinality(InFlight) = MaxConcurrentTasks

(***************************************************************************)
(* One bucket of a delta (create_bank/_common.py: RegularInfSet) and the   *)
(* task that applies it (_rebuild_mode.py: _apply_delta)                   *)
(***************************************************************************)

BucketEntries == 1..kn

\* the skip_verify that _calculate_delta_offline gives to each of its three
\* deltas: _rm and _new are made with skip_verify=True, _hold with
\* RegularDelta(), whose default is skip_verify=True
SkipVerifyOf(delta) == TRUE

\* RegularInfSet.is_empty
IsEmpty(first, data) == first = 0 /\ data = {}

\* RegularInfSet.add: the entry becomes the first copy when verification is
\* not skipped, no first copy is kept yet and its file verifies; it is added
\* to data in every case
Add ==
  /\ kpc = "build"
  /\ kadded < kn
  /\ LET entry == kadded + 1 IN
     /\ kfirst' = IF ~kskip /\ kfirst = 0 /\ kgood[entry] THEN entry
                   ELSE kfirst
     /\ kdata' = [none |-> FALSE, set |-> kdata.set \cup {entry}]
     /\ kadded' = entry
  /\ UNCHANGED <<kdelta, kskip, kn, kgood, kconsumer, kpc, kyield>>
  /\ UNCHANGED outsideBucket

\* the bucket is complete and is handed to its consumer
Built ==
  /\ kpc = "build"
  /\ kadded = kn
  /\ kpc' = "ready"
  /\ UNCHANGED <<kdelta, kskip, kn, kgood, kadded, kdata, kfirst, kconsumer,
                 kyield>>
  /\ UNCHANGED outsideBucket

\* _apply_delta, line 194: `skip_cleanup = _regs_set.skip_cleanup` raises
\* AttributeError, RegularInfSet has no such attribute
ApplyDeltaBucket ==
  /\ kpc = "ready"
  /\ kconsumer = "_apply_delta"
  /\ kpc' = "AttributeError"
  /\ UNCHANGED <<kdelta, kskip, kn, kgood, kadded, kdata, kfirst, kconsumer,
                 kyield>>
  /\ UNCHANGED outsideBucket

\* `for is_last, entry in regs_set`: __iter__ returns the set itself
IterStart ==
  /\ kpc = "ready"
  /\ kconsumer = "for"
  /\ kpc' = "iter"
  /\ UNCHANGED <<kdelta, kskip, kn, kgood, kadded, kdata, kfirst, kconsumer,
                 kyield>>
  /\ UNCHANGED outsideBucket

\* RegularInfSet.__next__: the first copy if there is one (it stays in
\* data), else an entry popped from data; StopIteration when data is empty;
\* AttributeError when data is None
IterNext ==
  /\ kpc = "iter"
  /\ IF kfirst # 0
       THEN /\ kfirst' = 0
            /\ kyield' = Append(kyield, [is_last |-> IsEmpty(0, kdata.set),
                                         entry |-> kfirst])
            /\ UNCHANGED <<kdata, kpc>>
       ELSE IF kdata.none
         THEN /\ kpc' = "AttributeError"
              /\ UNCHANGED <<kdata, kfirst, kyield>>
         ELSE IF kdata.set = {}
           THEN /\ kpc' = "stopped"
                /\ UNCHANGED <<kdata, kfirst, kyield>>
           ELSE \E res \in kdata.set :
                  /\ kdata' = [kdata EXCEPT !.set = @ \ {res}]
                  /\ kyield' =
                       Append(kyield,
                              [is_last |-> IsEmpty(kfirst, kdata.set \ {res}),
                               entry |-> res])
                  /\ UNCHANGED <<kfirst, kpc>>
  /\ UNCHANGED <<kdelta, kskip, kn, kgood, kadded, kconsumer>>
  /\ UNCHANGED outsideBucket

InitBucket ==
  /\ BootIdle
  /\ LatchIdle
  /\ FsmIdle
  /\ ClientIdle
  /\ HlIdle
  /\ DeltaIdle
  /\ BuildIdle
  /\ RegIdle
  /\ FileIdle
  /\ StoreIdle
  /\ TrackerIdle
  /\ DbIdle
  /\ kdelta \in {"_rm", "_new", "_hold", "caller"}
  /\ kskip \in (IF kdelta = "caller" THEN BOOLEAN ELSE {SkipVerifyOf(kdelta)})
  /\ kn \in 0..MaxBucketEntries
  /\ kgood \in [1..kn -> BOOLEAN]
  /\ kadded = 0
  /\ kdata = [none |-> TRUE, set |-> {}]
  /\ kfirst = 0
  /\ kconsumer \in {"_apply_delta", "for"}
  /\ kpc = "build"
  /\ kyield = <<>>

NextBucket ==
  \/ Add
  \/ Built
  \/ ApplyDeltaBucket
  \/ IterStart
  \/ IterNext

SpecBucket == InitBucket /\ [][NextBucket]_vars

\* the consumer of the bucket is over
BucketConsumed == kpc \in {"stopped", "AttributeError"}

\* the number of times the entry was handed out for materialization
TimesYielded(entry) ==
  Cardinality({i \in 1..Len(kyield) : kyield[i].entry = entry})

\* C32: when the task of a bucket is over, every entry of the bucket was
\* handed out exactly once, and the is-last flag was true for the final
\* entry handed out and for no other.
C32_EachEntryOnceLastFlagged ==
  BucketConsumed
  => /\ \A entry \in BucketEntries : TimesYielded(entry) = 1
     /\ \A i \in 1..Len(kyield) : kyield[i].is_last <=> (i = Len(kyield))

(***************************************************************************)
(* C33: a hold bucket is copied from a verified source or downloaded       *)
(***************************************************************************)

\* the entries of the bucket whose file on the active slot verifies
VerifiedSources == {entry \in BucketEntries : kgood[entry]}

\* C33: the first copy of a bucket of hold_set is never an entry whose file
\* on the active slot does not verify; and the task that applies the bucket
\* places its content, by copy from a verified source or, when no source
\* verifies, by download: it does not end with an error and nothing placed.
C33_HoldCopiedFromVerified ==
  (kdelta = "_hold" /\ kconsumer = "_apply_delta" /\ kpc # "build")
  => /\ kfirst # 0 => kfirst \in VerifiedSources
     /\ kpc # "AttributeError"

(***************************************************************************)
(* SpecTracker: one SimpleTasksTracker. Its user hands in the futures of   *)
(* tk_n tasks with add_task, attaching done_callback to each, and then     *)
(* calls task_collect_finished; another thread calls wait().  The          *)
(* callbacks run in the pool's threads.                                    *)
(***************************************************************************)
\* add_task: `if self._interrupted.is_set() or self._register_finished:
\* return`; otherwise the call goes on to the semaphore
TrackerAddTaskEnter ==
  /\ tk_wait # "off"
  /\ tk_next <= tk_n
  /\ tk_task[tk_next] = "new"
  /\ IF tk_interrupted \/ tk_register_finished
     THEN /\ tk_task' = [tk_task EXCEPT ![tk_next] = "skipped"]
          /\ tk_next' = tk_next + 1
     ELSE /\ tk_task' = [tk_task EXCEPT ![tk_next] = "acquiring"]
          /\ tk_next' = tk_next
  /\ UNCHANGED <<tk_n, tk_se, tk_in_counter, tk_done_counter, tk_in_num,
                 tk_done_num, tk_val, tk_register_finished, tk_interrupted,
                 tk_last_error, tk_wait>>
  /\ UNCHANGED outsideTracker

\* add_task: `self._se.acquire(blocking=True)`,
\* `self._in_num = next(self._in_counter)`, `self._futs.add(fut)`
TrackerAddTask ==
  /\ tk_next <= tk_n
  /\ tk_task[tk_next] = "acquiring"
  /\ tk_se > 0
  /\ tk_se' = tk_se - 1
  /\ tk_in_num' = tk_in_counter
  /\ tk_in_counter' = tk_in_counter + 1
  /\ tk_task' = [tk_task EXCEPT ![tk_next] = "running"]
  /\ tk_next' = tk_next + 1
  /\ UNCHANGED <<tk_n, tk_done_counter, tk_done_num, tk_val,
                 tk_register_finished, tk_interrupted, tk_last_error, tk_wait>>
  /\ UNCHANGED outsideTracker

\* task_collect_finished, called once every future is handed in
TrackerTaskCollectFinished ==
  /\ tk_wait # "off"
  /\ tk_next = tk_n + 1
  /\ ~tk_register_finished
  /\ tk_register_finished' = TRUE
  /\ UNCHANGED <<tk_n, tk_next, tk_task, tk_se, tk_in_counter,
                 tk_done_counter, tk_in_num, tk_done_num, tk_val,
                 tk_interrupted, tk_last_error, tk_wait>>
  /\ UNCHANGED outsideTracker

\* done_callback of a task that returned: `self._se.release()`,
\* `fut.result()`, `self._futs.discard(fut)`, `next(self._done_counter)`
TrackerDoneCallback(i) ==
  /\ tk_task[i] = "running"
  /\ tk_se' = tk_se + 1
  /\ tk_val' = [tk_val EXCEPT ![i] = tk_done_counter]
  /\ tk_done_counter' = tk_done_counter + 1
  /\ tk_task' = [tk_task EXCEPT ![i] = "assigning"]
  /\ UNCHANGED <<tk_n, tk_next, tk_in_counter, tk_in_num, tk_done_num,
                 tk_register_finished, tk_interrupted, tk_last_error, tk_wait>>
  /\ UNCHANGED outsideTracker

\* done_callback: `self._done_num = ` the value drawn from the counter
TrackerDoneCallbackStore(i) ==
  /\ tk_task[i] = "assigning"
  /\ tk_done_num' = tk_val[i]
  /\ tk_task' = [tk_task EXCEPT ![i] = "done"]
  /\ UNCHANGED <<tk_n, tk_next, tk_se, tk_in_counter, tk_done_counter,
                 tk_in_num, tk_val, tk_register_finished, tk_interrupted,
                 tk_last_error, tk_wait>>
  /\ UNCHANGED outsideTracker

\* done_callback of a task that raised: `self._se.release()`, fut.result()
\* raises, `self.last_error = e`, `self._interrupted.set()` (the futures
\* still in _futs are running and cannot be cancelled)
TrackerDoneCallbackRaised(i) ==
  /\ tk_task[i] = "running"
  /\ tk_se' = tk_se + 1
  /\ tk_last_error' = i
  /\ tk_interrupted' = TRUE
  /\ tk_task' = [tk_task EXCEPT ![i] = "failed"]
  /\ UNCHANGED <<tk_n, tk_next, tk_in_counter, tk_done_counter, tk_in_num,
                 tk_done_num, tk_val, tk_register_finished, tk_wait>>
  /\ UNCHANGED outsideTracker

\* wait() is called
TrackerWaitCall ==
  /\ tk_wait = "idle"
  /\ tk_wait' = "loop"
  /\ UNCHANGED <<tk_n, tk_next, tk_task, tk_se, tk_in_counter,
                 tk_done_counter, tk_in_num, tk_done_num, tk_val,
                 tk_register_finished, tk_interrupted, tk_last_error>>
  /\ UNCHANGED outsideTracker

\* wait: `(not self._register_finished) or self._done_num < self._in_num`
WaitCondition == ~tk_register_finished \/ tk_done_num < tk_in_num

\* wait: the while loop is left, its condition being false or _interrupted
\* being set; otherwise the thread sleeps and tests again
TrackerWaitLoop ==
  /\ tk_wait = "loop"
  /\ ~WaitCondition \/ tk_interrupted
  /\ tk_wait' = "after"
  /\ UNCHANGED <<tk_n, tk_next, tk_task, tk_se, tk_in_counter,
                 tk_done_counter, tk_in_num, tk_done_num, tk_val,
                 tk_register_finished, tk_interrupted, tk_last_error>>
  /\ UNCHANGED outsideTracker

\* wait: `if self.last_error: ... raise self.last_error`, else it returns
TrackerWaitEnd ==
  /\ tk_wait = "after"
  /\ tk_wait' = IF tk_last_error # 0 THEN "raised" ELSE "returned"
  /\ UNCHANGED <<tk_n, tk_next, tk_task, tk_se, tk_in_counter,
                 tk_done_counter, tk_in_num, tk_done_num, tk_val,
                 tk_register_finished, tk_interrupted, tk_last_error>>
  /\ UNCHANGED outsideTracker

\* SimpleTasksTracker.__init__, and a user with 0..MaxTasks tasks
InitTracker ==
  /\ BootIdle
  /\ LatchIdle
  /\ FsmIdle
  /\ ClientIdle
  /\ HlIdle
  /\ DeltaIdle
  /\ BuildIdle
  /\ RegIdle
  /\ FileIdle
  /\ StoreIdle
  /\ BucketIdle
  /\ DbIdle
  /\ tk_n \in 0..MaxTasks
  /\ tk_next = 1
  /\ tk_task = [i \in TkTasks |-> "new"]
  /\ tk_se = MaxConcurrentTasks
  /\ tk_in_counter = 0
  /\ tk_done_counter = 0
  /\ tk_in_num = 0
  /\ tk_done_num = 0
  /\ tk_val = [i \in TkTasks |-> 0]
  /\ tk_register_finished = FALSE
  /\ tk_interrupted = FALSE
  /\ tk_last_error = 0
  /\ tk_wait = "idle"

NextTracker ==
  \/ TrackerAddTaskEnter
  \/ TrackerAddTask
  \/ TrackerTaskCollectFinished
  \/ \E i \in TkTasks : TrackerDoneCallback(i)
  \/ \E i \in TkTasks : TrackerDoneCallbackStore(i)
  \/ \E i \in TkTasks : TrackerDoneCallbackRaised(i)
  \/ TrackerWaitCall
  \/ TrackerWaitLoop
  \/ TrackerWaitEnd

SpecTracker == InitTracker /\ [][NextTracker]_vars

\* the tasks registered through add_task
Registered == {i \in TkTasks : tk_task[i] \notin {"new", "acquiring", "skipped"}}

\* C39: wait() returns without raising only after task_collect_finished() was
\* called and every task registered through add_task has completed
\* successfully, whatever the number of tasks (exactly one included); a wait()
\* that raised raised the error of a task that failed.
C39_WaitReturnsWhenAllDone ==
  /\ tk_wait = "returned"
       => /\ tk_register_finished
          /\ \A i \in Registered : tk_task[i] \in {"assigning", "done"}
  /\ tk_wait = "raised"
       => (tk_last_error \in Registered /\ tk_task[tk_last_error] = "failed")

(***************************************************************************)
(* SpecDb: one OTACacheDB connection and the calls of its one thread.      *)
(***************************************************************************)
\* number of urls, and the largest timestamp
MaxUrls == 2
MaxClock == 1

Urls == 1..MaxUrls
Timestamps == 0..MaxClock

\* CacheMeta: url, last_access and hash stand for the seven columns
CacheMetas == [url : Urls, last_access : Timestamps, hash : Hashes]

\* a ColumnDescriptor object of CacheMeta, and the value of its _default
ColumnDescriptor(name) == [descriptor |-> TRUE, field_name |-> name]
DefaultOf(name) == [descriptor |-> FALSE, field_name |-> ""]

\* ColumnDescriptor.__get__(None, cls), what `CacheMeta.<name>` and
\* getattr(cls, name) evaluate to: `if obj is None and objtype: return
\* self._default`
ClassAttribute(name) == DefaultOf(name)

\* ORMBase.contains_field: isinstance(getattr(cls, name), ColumnDescriptor),
\* False on AttributeError (the name "" of a default value)
contains_field(input) ==
  IF input.descriptor
  THEN ClassAttribute(input.field_name).descriptor
  ELSE FALSE

\* ColumnDescriptor.check_type of a url given for the column fd
check_type(fd, url) == fd.descriptor /\ fd.field_name = "url"

\* what a caller can hand in as the url column: `CacheMeta.url`, or the
\* descriptor object itself out of the class dictionary
UrlColumns == {ClassAttribute("url"), ColumnDescriptor("url")}

\* the rows WHERE url = u
Select(rows, u) == {r \in rows : r.url = u}

\* a call on the open database ends
DbCall(op_name, u, arg, returned) ==
  /\ dblast' = [op |-> op_name, url |-> u, arg |-> arg, ret |-> returned]
  /\ dbflip' = ~dbflip
  /\ UNCHANGED <<dbstate, dbtable, dbnow>>
  /\ UNCHANGED outsideDb

\* OTACacheDB.__init__ / _connect_db: init=True unlinks the file; a missing
\* table is created from get_create_table_stmt, which reads `col.field_name`
\* of every class attribute
DbConnect ==
  \E init \in BOOLEAN :
    /\ dbstate = "closed"
    /\ LET present == dbtable /\ ~init IN
       /\ dbrows' = IF present THEN dbrows ELSE {}
       /\ IF present
          THEN dbstate' = "open" /\ dbtable' = TRUE
          ELSE IF \A name \in {"url", "last_access", "hash"} :
                    ClassAttribute(name).descriptor
          THEN dbstate' = "open" /\ dbtable' = TRUE
          ELSE dbstate' = "AttributeError" /\ dbtable' = FALSE
    /\ UNCHANGED <<dbnow, dblast, dbflip>>
    /\ UNCHANGED outsideDb

\* INSERT OR REPLACE on a table whose url column is the primary key
InsertOrReplace(rows, m) == (rows \ Select(rows, m.url)) \cup {m}

\* OTACacheDB.insert_entry
DbInsertEntry ==
  \E m \in CacheMetas :
    /\ dbstate = "open"
    /\ dbrows' = InsertOrReplace(dbrows, m)
    /\ DbCall("insert", m.url, m, 1)

\* OTACacheDB.lookup_entry_by_field
DbLookupEntryByField ==
  \E fd \in UrlColumns, u \in Urls :
    /\ dbstate = "open"
    /\ IF ~contains_field(fd) \/ check_type(fd, u)
       THEN /\ dbrows' = dbrows
            /\ DbCall("lookup", u, None, None)
       ELSE IF Select(dbrows, u) = {}
       THEN /\ dbrows' = dbrows
            /\ DbCall("lookup", u, None, None)
       ELSE \E res \in Select(dbrows, u) :
              /\ dbrows' = {IF r.url = res.url
                            THEN [r EXCEPT !.last_access = dbnow] ELSE r :
                            r \in dbrows}
              /\ DbCall("lookup", u, None, res)

\* OTACacheDB.remove_entries_by_field
DbRemoveEntriesByField ==
  \E fd \in UrlColumns, u \in Urls :
    /\ dbstate = "open"
    /\ IF contains_field(fd) /\ check_type(fd, u)
       THEN /\ dbrows' = dbrows \ Select(dbrows, u)
            /\ DbCall("remove", u, None, Cardinality(Select(dbrows, u)))
       ELSE /\ dbrows' = dbrows
            /\ DbCall("remove", u, None, 0)

\* time passes
DbTick ==
  /\ dbstate = "open"
  /\ dbnow < MaxClock
  /\ dbnow' = dbnow + 1
  /\ UNCHANGED <<dbstate, dbtable, dbrows, dblast, dbflip>>
  /\ UNCHANGED outsideDb

\* a database file with or without the table, not yet connected to
InitDb ==
  /\ BootIdle
  /\ LatchIdle
  /\ FsmIdle
  /\ ClientIdle
  /\ HlIdle
  /\ DeltaIdle
  /\ BuildIdle
  /\ RegIdle
  /\ FileIdle
  /\ StoreIdle
  /\ BucketIdle
  /\ TrackerIdle
  /\ dbstate = "closed"
  /\ dbtable \in BOOLEAN
  /\ dbrows = {}
  /\ dbnow = 0
  /\ dblast = NoDbCall
  /\ dbflip = FALSE

NextDb ==
  \/ DbConnect
  \/ DbInsertEntry
  \/ DbLookupEntryByField
  \/ DbRemoveEntriesByField
  \/ DbTick

SpecDb == InitDb /\ [][NextDb]_vars

\* C40: after insert_entry(m) the table holds m as the one entry of m.url; a
\* lookup_entry_by_field on the url column returns the entry of that url and
\* sets its last_access to the time of the call, and returns nothing for a url
\* with no entry; no url ever has two entries.
C40_InsertThenLookup ==
  /\ [](\A r1, r2 \in dbrows : r1.url = r2.url => r1 = r2)
  /\ [][(dbflip' # dbflip /\ dblast'.op = "insert")
          => Select(dbrows', dblast'.url) = {dblast'.arg}]_vars
  /\ [][(dbflip' # dbflip /\ dblast'.op = "lookup")
          => LET hit == Select(dbrows, dblast'.url) IN
             IF hit = {}
             THEN dblast'.ret = None /\ dbrows' = dbrows
             ELSE /\ dblast'.ret \in hit
                  /\ Select(dbrows', dblast'.url) =
                       {[r EXCEPT !.last_access = dbnow] : r \in hit}]_vars

====
